---- MODULE Spec2Model ----
(***************************************************************************)
(* ESP32 WiFi provisioning over BLE: the BLEService singleton              *)
(* (src/src/services/BLEManager.ts), the DeviceScanner screen              *)
(* (src/unnamed/part_001), the DeviceDetails screen                        *)
(* (src/src/components/DeviceDetails.tsx) and the App that shows one of    *)
(* the two (src/App.tsx).                                                  *)
(*                                                                         *)
(* Every async function is a chain of steps, one per await: the step that  *)
(* ends an await runs the code up to the next await.  A function of a      *)
(* React component reads the state of the render that created it, so a     *)
(* chain, a timer handler or a notification callback carries the values    *)
(* it captured when it was created.  A chain keeps running after its       *)
(* screen is unmounted; setState of an unmounted screen changes nothing.   *)
(***************************************************************************)
EXTENDS Integers, FiniteSets, Sequences, TLC

\* ------------------------------------------------------------------ bounds
\* Device selections that reach the transport (one handle, and at most one
\* DeviceDetails instance, per selection).
MaxSessions == 2
\* Listeners armed on the CE02 characteristic of one handle.
MaxListeners == 2
\* Scans (startScan chains and their 30 s timers) alive at the same time.
MaxScans == 1

\* Services the device lists whose uuid holds a target uuid.
MaxTargets == 1

\* ----------------------------------------------------------------- strings
\* A string is a sequence of characters; three characters have names.
NUL == "x00"
ACK == "x06"
LF == "LF"

\* What String.prototype.trim removes at both ends (of the characters used
\* here: the space and the line feed; 0x00 and 0x06 are not white space).
WhiteSpace == {" ", LF}

\* String.prototype.includes for a one-character argument.
Includes(str, c) == \E i \in 1..Len(str) : str[i] = c

\* String.prototype.split for a one-character separator.
RECURSIVE Split(_, _)
Split(str, sep) ==
    IF ~Includes(str, sep) THEN <<str>>
    ELSE LET i == CHOOSE k \in 1..Len(str) :
                    str[k] = sep /\ \A j \in 1..(k - 1) : str[j] # sep
         IN <<SubSeq(str, 1, i - 1)>> \o Split(SubSeq(str, i + 1, Len(str)), sep)

RECURSIVE TrimStart(_)
TrimStart(str) ==
    IF str # <<>> /\ Head(str) \in WhiteSpace THEN TrimStart(Tail(str)) ELSE str

RECURSIVE TrimEnd(_)
TrimEnd(str) ==
    IF str # <<>> /\ str[Len(str)] \in WhiteSpace
    THEN TrimEnd(SubSeq(str, 1, Len(str) - 1))
    ELSE str

\* String.prototype.trim.
Trim(str) == TrimEnd(TrimStart(str))

\* String.prototype.includes.
IncludesStr(str, sub) ==
    \E i \in 0..(Len(str) - Len(sub)) : SubSeq(str, i + 1, i + Len(sub)) = sub

UpperCase ==
    <<"A", "B", "C", "D", "E", "F", "G", "H", "I", "J", "K", "L", "M",
      "N", "O", "P", "Q", "R", "S", "T", "U", "V", "W", "X", "Y", "Z">>

LowerCase ==
    <<"a", "b", "c", "d", "e", "f", "g", "h", "i", "j", "k", "l", "m",
      "n", "o", "p", "q", "r", "s", "t", "u", "v", "w", "x", "y", "z">>

\* String.prototype.toLowerCase.
ToLowerCase(str) ==
    [i \in 1..Len(str) |->
        IF \E k \in 1..Len(UpperCase) : UpperCase[k] = str[i]
        THEN LowerCase[CHOOSE k \in 1..Len(UpperCase) : UpperCase[k] = str[i]]
        ELSE str[i]]

Handles == 1..MaxSessions
Instances == 1..MaxSessions
ScanSlots == 1..MaxScans
DeviceIds == {"AA:BB"}

\* Notification payloads after atob: one the classifier accepts, one it
\* rejects, and the in-band marker itself sent as raw text.
Messages ==
    { <<"W", "i", "f", "i", "_", "O", "K">>,
      <<"w", "i", "f", "i", "_", "f", "a", "i", "l", "e", "d">>,
      <<"W", "I", "F", "I", "_", "S", "U", "C", "C", "E", "S", "S">> }

SetupStates ==
    {"connecting", "readingWiFiList", "configuringWiFi",
     "waitingForConnection", "success", "error"}

VARIABLES
    \* BLEService fields
    connectedDevice,        \* 0 = null, else the handle of the Device object
    notificationCallback,   \* the closure last passed to setupWiFiNotification
    \* the transport, as far as the calls of the code reach it
    nHandles,               \* Device objects created by manager.connectToDevice
    linkUp,                 \* handles whose link is up
    discovered,             \* handles whose discovery completed
    listeners,              \* handle -> monitors armed on CE02
    targets,                \* target services (12CE, 12CF) the device exposes
    scanActive,             \* a device scan is running
    scanOwner,              \* the DeviceScanner instance whose callback it feeds
    detached,               \* disconnectDevice calls nobody awaits, in flight
    \* App
    mounted,                \* 0 = the scanner is shown, else the details instance
    scannerId,              \* which DeviceScanner instance is (or was last) shown
    \* DeviceScanner state and chains
    isScanning, isConnecting, devices,
    scanJob,                \* slot -> a startScan chain or its pending timer
    selPc,                  \* DeviceScanner.connectToDevice chain
    \* DeviceDetails: per instance, React state and chains
    dd,
    timers,                 \* pending 40 s confirmation timers
    \* one call of BLEService.readWiFiList, with what it returns
    rawData,                \* the decoded value of CE01 on the device
    networks,               \* the list the call returned (empty before)
    listPc,                 \* where the call is
    listSvc,                \* index in its loop over services
    readFailed,             \* a read of CE01 was rejected in this call
    \* one notification of CE02, with what the monitors' listeners do
    notifiedText,           \* its text after atob
    monitors,               \* monitors armed on CE02 when it arrives
    handled,                \* how many of their listeners have run
    calls,                  \* per run: the listener's isWifiOk and the
                            \* argument it passed to notificationCallback
    \* one device scan of scanForDevices, with its callback
    adverts,                \* the devices the scan callback was called with
    foundDevices,           \* ids the callback has accepted
    validating,             \* callbacks waiting in validateDeviceRegistration
    validations,            \* the results validateDeviceRegistration returned
    onDeviceFoundCalls,     \* the devices passed to onDeviceFound
    deviceList,             \* the scanner's list (devices of useState)
    scanRun,                \* which scanForDevices call of the scanner this is
    scanStopped,            \* stopScan has ended it
    \* one call of BLEService.configureWiFi
    cfgSsid, cfgPassword,   \* its arguments
    cfgServices,            \* target services in the list services() returns
    cfgSession,             \* connectedDevice is not null
    cfgPc,                  \* where the call is, or what it returned
    cfgSvc,                 \* the target service of the pending write
    written,                \* the writes that were answered, in order
    logged                  \* the values passed to console.log and console.error

bleVars == <<connectedDevice, notificationCallback>>
transportVars == <<nHandles, linkUp, discovered, listeners>>
scanVars == <<scanActive, scanOwner>>
appVars == <<mounted, scannerId>>
scannerVars == <<isScanning, isConnecting, devices>>
listVars == <<rawData, networks, listPc, listSvc, readFailed>>
notifyVars == <<notifiedText, monitors, handled, calls>>
scanCbVars ==
    <<adverts, foundDevices, validating, validations, onDeviceFoundCalls, deviceList,
      scanRun, scanStopped>>
cfgVars ==
    <<cfgSsid, cfgPassword, cfgServices, cfgSession, cfgPc, cfgSvc, written, logged>>
unitVars == <<listVars, notifyVars, scanCbVars, cfgVars>>

vars ==
    <<connectedDevice, notificationCallback, nHandles, linkUp, discovered,
      listeners, scanActive, scanOwner, detached, mounted, scannerId,
      isScanning, isConnecting, devices, scanJob, selPc, dd, timers,
      targets, unitVars>>

\* The variables of the screens, the singleton and the transport.
programVars ==
    <<connectedDevice, notificationCallback, nHandles, linkUp, discovered,
      listeners, scanActive, scanOwner, detached, mounted, scannerId,
      isScanning, isConnecting, devices, scanJob, selPc, dd, timers>>

NoCallback == [inst |-> 0, timeoutTimer |-> 0]
FreeJob == [st |-> "free", owner |-> 0]

\* The state of a DeviceDetails instance at its first render (useState
\* initial values), with no chain running.
InitialDetails ==
    [ currentState      |-> "connecting",
      timeoutTimer      |-> 0,
      isCompletingSetup |-> FALSE,
      confirmedBy       |-> "none",      \* the caller of onWiFiConnected behind the shown success
      pc                |-> "idle",      \* connectToDevice / readWiFiList / sendWiFiCredentials
      svc               |-> 0,           \* index in the loop over services
      tgt               |-> 0,           \* the Device of the pending read or write
      closure           |-> [currentState |-> "connecting", timeoutTimer |-> 0],
      nArmed            |-> 0,           \* timers this instance has armed
      pc2               |-> "idle",      \* completeSetup
      svc2              |-> 0,
      tgt2              |-> 0,
      endedOn           |-> 0 ]          \* the Device its end frame went to, while its link is up

ProgramInit ==
    /\ connectedDevice = 0
    /\ notificationCallback = NoCallback
    /\ nHandles = 0
    /\ linkUp = {}
    /\ discovered = {}
    /\ listeners = [h \in Handles |-> 0]
    /\ targets \in 0..MaxTargets
    /\ scanActive = FALSE
    /\ scanOwner = 0
    /\ detached = 0
    /\ mounted = 0
    /\ scannerId = 0
    /\ isScanning = FALSE
    /\ isConnecting = FALSE
    /\ devices = {}
    /\ scanJob = [s \in ScanSlots |-> FreeJob]
    /\ selPc = "idle"
    /\ dd = [i \in Instances |-> InitialDetails]
    /\ timers = {}

\* No call of readWiFiList is followed.
ListIdle ==
    /\ rawData = <<>>
    /\ networks = <<>>
    /\ listPc = "idle"
    /\ listSvc = 0
    /\ readFailed = FALSE

\* No notification is followed.
NotifyIdle ==
    /\ notifiedText = <<>>
    /\ monitors = 0
    /\ handled = 0
    /\ calls = <<>>

\* A device scan before its first callback (and when none is followed).
ScanCbIdle ==
    /\ adverts = <<>>
    /\ foundDevices = {}
    /\ validating = <<>>
    /\ validations = {}
    /\ onDeviceFoundCalls = <<>>
    /\ deviceList = <<>>
    /\ scanRun = 1
    /\ scanStopped = FALSE

\* No call of configureWiFi is followed.
CfgIdle ==
    /\ cfgSsid = <<>>
    /\ cfgPassword = <<>>
    /\ cfgServices = 0
    /\ cfgSession = FALSE
    /\ cfgPc = "idle"
    /\ cfgSvc = 0
    /\ written = <<>>
    /\ logged = <<>>

Init ==
    /\ ProgramInit
    /\ ListIdle
    /\ NotifyIdle
    /\ ScanCbIdle
    /\ CfgIdle

\* ------------------------------------------------------------ BLEService
\* stopScan (and the stopDeviceScan that scanForDevices calls first).
BLE_stopScan == FALSE

\* disconnectDevice up to its await: with a session, cancelConnection is
\* called on it (the link goes down); connectedDevice is cleared only by the
\* finally that runs when the await ends.
BLE_disconnect_link == IF connectedDevice = 0 THEN linkUp ELSE linkUp \ {connectedDevice}

BLE_disconnect_tryOnly(cd, ok) == IF ok THEN 0 ELSE cd

\* disconnectDevice when its await ends, cancelConnection having resolved
\* (ok) or rejected: the catch logs, the finally clears connectedDevice.
BLE_disconnect_finally(cd, ok) == 0

BLE_guard_missing(cd) == "none"

\* The guard at the top of setupWiFiNotification, readWiFiList, configureWiFi
\* and sendEndCommand: what it throws when connectedDevice is cd.
BLE_guard(cd) == IF cd = 0 THEN "No device connected" ELSE "none"

\* The outcomes of a characteristic read or write on handle h: it can succeed
\* only while the link is up.
WriteOutcomes(h) == IF h \in linkUp THEN {TRUE, FALSE} ELSE {FALSE}

ReadOutcomes(h) == IF h \in linkUp THEN {"value", "novalue", "error"} ELSE {"error"}

\* The records d of the instances when the links `up` are left: the
\* Device an end frame went to is noted as long as its link is up (a link
\* that is down accepts no write, and no link comes up again).
EndedOn_live(d, up) ==
    [i \in Instances |-> IF d[i].endedOn \in up THEN d[i] ELSE [d[i] EXCEPT !.endedOn = 0]]

\* ---------------------------------------------------------- DeviceScanner
\* The isScanning that startScan's 30 s timer handler reads: the constant of
\* the render in which startScan ran, where the guard at its top had found
\* it false.
ScanTimer_isScanning == FALSE

ScannerShown == mounted = 0

LiveJobs == {s \in ScanSlots : scanJob[s].st # "free"}

FreeSlot == CHOOSE s \in ScanSlots : scanJob[s].st = "free" /\ \A r \in ScanSlots : scanJob[r].st = "free" => s <= r

\* setIsScanning(false) by a chain of scanner instance `owner`.
ClearScanning(owner) == IF ScannerShown /\ scannerId = owner THEN FALSE ELSE isScanning

\* The scan button: startScan up to its first await (checkBluetoothState).
StartScan ==
    /\ ScannerShown
    /\ ~isScanning
    /\ Cardinality(LiveJobs) < MaxScans
    /\ nHandles < MaxSessions
    /\ isScanning' = TRUE
    /\ devices' = {}
    /\ scanJob' = [scanJob EXCEPT ![FreeSlot] = [st |-> "check", owner |-> scannerId]]
    /\ UNCHANGED <<targets, unitVars, bleVars, transportVars, scanVars, detached, appVars, isConnecting, selPc, dd, timers>>

ScanForDevices_notReady_stopFirst == BLE_stopScan

\* Whether a device scan runs after scanForDevices threw 'Bluetooth is not
\* enabled': the throw comes before stopDeviceScan, a running scan goes on.
ScanForDevices_notReady == scanActive

\* checkBluetoothState answered, in startScan and again in scanForDevices:
\* not ready throws into startScan's catch; ready restarts the device scan,
\* and back in startScan the 30 s timer is set.
ScanForDevices_started(s) ==
    /\ scanJob[s].st = "check"
    /\ \E ready \in BOOLEAN :
        IF ready
        THEN /\ scanActive' = TRUE
             /\ scanOwner' = scanJob[s].owner
             /\ scanJob' = [scanJob EXCEPT ![s].st = "timer"]
             /\ isScanning' = isScanning
        ELSE /\ scanActive' = ScanForDevices_notReady
             /\ scanOwner' = scanOwner
             /\ scanJob' = [scanJob EXCEPT ![s] = FreeJob]
             /\ isScanning' = ClearScanning(scanJob[s].owner)
    /\ UNCHANGED <<targets, unitVars, bleVars, transportVars, detached, appVars, isConnecting, devices, selPc, dd, timers>>

\* The 30 s timer fires: if (isScanning) stopScan(), both of the render that
\* ran startScan.
ScanTimeout(s) ==
    /\ scanJob[s].st = "timer"
    /\ scanJob' = [scanJob EXCEPT ![s] = FreeJob]
    /\ IF ScanTimer_isScanning
       THEN /\ scanActive' = BLE_stopScan
            /\ isScanning' = ClearScanning(scanJob[s].owner)
       ELSE UNCHANGED <<scanActive, isScanning>>
    /\ UNCHANGED <<targets, unitVars, bleVars, transportVars, scanOwner, detached, appVars, isConnecting, devices, selPc, dd, timers>>

\* The stop button.
StopScan ==
    /\ ScannerShown
    /\ isScanning
    /\ scanActive' = BLE_stopScan
    /\ isScanning' = FALSE
    /\ UNCHANGED <<targets, unitVars, bleVars, transportVars, scanOwner, detached, appVars, isConnecting, devices, scanJob, selPc, dd, timers>>

\* The scan callback surfaces a validated device: setDevices of the
\* scanner instance that started the scan.
OnDeviceFound(d) ==
    /\ scanActive
    /\ devices' = IF ScannerShown /\ scannerId = scanOwner THEN devices \cup {d} ELSE devices
    /\ UNCHANGED <<targets, unitVars, bleVars, transportVars, scanVars, detached, appVars, isScanning, isConnecting, scanJob, selPc, dd, timers>>

\* A device of the list is pressed: DeviceScanner.connectToDevice up to the
\* first await inside BLEManager.connectToDevice.
SelectDevice(d) ==
    /\ ScannerShown
    /\ d \in devices
    /\ ~isConnecting
    /\ selPc = "idle"
    /\ nHandles < MaxSessions
    /\ isConnecting' = TRUE
    /\ isScanning' = FALSE
    /\ scanActive' = IF isScanning THEN BLE_stopScan ELSE scanActive
    /\ linkUp' = BLE_disconnect_link
    /\ selPc' = IF connectedDevice = 0 THEN "connect" ELSE "disconnect"
    /\ dd' = EndedOn_live(dd, BLE_disconnect_link)
    /\ UNCHANGED <<targets, unitVars, bleVars, nHandles, discovered, listeners, scanOwner, detached, appVars, devices, scanJob, timers>>

\* BLEManager.connectToDevice: its disconnectDevice ended; the transport
\* connection is requested.
Connect_disconnected ==
    /\ selPc = "disconnect"
    /\ \E ok \in BOOLEAN : connectedDevice' = BLE_disconnect_finally(connectedDevice, ok)
    /\ selPc' = "connect"
    /\ UNCHANGED <<targets, unitVars, notificationCallback, transportVars, scanVars, detached, appVars, scannerVars, scanJob, dd, timers>>

Connect_afterFailure_retry == "connect"

\* Where the scanner's connectToDevice goes when BLEManager.connectToDevice
\* returned false: it shows the alert and ends; nothing connects again.
Connect_afterFailure == "idle"

Connect_stored_early(cd, device) == device

\* connectedDevice when manager.connectToDevice has resolved with device:
\* unchanged, the Device is stored after its discovery only.
Connect_stored(cd, device) == cd

\* manager.connectToDevice answered: a failure returns false (the scanner
\* shows an alert and stays), a success gives a Device whose discovery is
\* requested.
Connect_connected ==
    /\ selPc = "connect"
    /\ \E ok \in BOOLEAN :
        IF ok
        THEN /\ nHandles' = nHandles + 1
             /\ linkUp' = linkUp \cup {nHandles + 1}
             /\ connectedDevice' = Connect_stored(connectedDevice, nHandles + 1)
             /\ selPc' = "discover"
             /\ isConnecting' = isConnecting
        ELSE /\ UNCHANGED <<nHandles, linkUp, connectedDevice>>
             /\ selPc' = Connect_afterFailure
             /\ isConnecting' = FALSE
    /\ UNCHANGED <<targets, unitVars, notificationCallback, discovered, listeners, scanVars, detached, appVars, isScanning, devices, scanJob, dd, timers>>

\* ---------------------------------------------------------- DeviceDetails
\* What a chain of instance i leaves of record `new`: setState of an
\* unmounted instance changes nothing, the chain's own locals always change.
Keep(i, new) ==
    IF mounted = i
    THEN [new EXCEPT !.confirmedBy = IF new.currentState = "success" THEN @ ELSE "none"]
    ELSE [new EXCEPT !.currentState = dd[i].currentState,
                     !.timeoutTimer = dd[i].timeoutTimer,
                     !.isCompletingSetup = dd[i].isCompletingSetup,
                     !.confirmedBy = dd[i].confirmedBy]

\* The chain connectToDevice / readWiFiList / sendWiFiCredentials has ended.
Done(d) ==
    [d EXCEPT !.pc = "idle", !.svc = 0, !.tgt = 0,
              !.closure = InitialDetails.closure]

\* completeSetup has ended.
Done2(d) == [d EXCEPT !.pc2 = "idle", !.svc2 = 0, !.tgt2 = 0]

\* clearTimeout(id) by instance i; id 0 is the null of useState.
ClearTimeout(i, id) == {t \in timers : ~(t.inst = i /\ t.id = id)}

\* The timeoutTimer that the cleanup of useEffect(..., []) reads: the effect
\* ran after the first render, where timeoutTimer is the initial null.
Cleanup_timeoutTimer(i) == InitialDetails.timeoutTimer

\* The currentState that the 40 s timer handler of timer t reads: the
\* constant of the render whose sendWiFiCredentials armed it.
Timeout_currentState(t) == t.closure.currentState

\* Target service k of the awaited list can be tried on the Device in
\* connectedDevice (a null there throws inside the inner try).
CanTry(k) == k <= targets /\ connectedDevice # 0

\* connectToDevice of DeviceDetails up to the await inside
\* setupWiFiNotification: d is the instance's record, capT the timeoutTimer
\* of the calling render, cd the connectedDevice at the call.
DD_connectToDevice(d, cd) ==
    IF BLE_guard(cd) = "No device connected"
    THEN Done([d EXCEPT !.currentState = "error", !.confirmedBy = "none"])
    ELSE [d EXCEPT !.currentState = "connecting", !.pc = "setup", !.confirmedBy = "none"]

\* setupWiFiNotification stores the callback before its first await.
BLE_setCallback(i, capT, cd) ==
    IF BLE_guard(cd) = "No device connected" THEN notificationCallback ELSE [inst |-> i, timeoutTimer |-> capT]

\* BLEManager.connectToDevice: discovery answered.  A failure returns false.
\* A success stores the Device, returns true, and the scanner hands the
\* device to App: the scanner unmounts (its cleanup stops the scan) and a
\* DeviceDetails instance mounts, whose effect runs connectToDevice.
Connect_discovered ==
    /\ selPc = "discover"
    /\ \E ok \in BOOLEAN :
        IF ok
        THEN /\ discovered' = discovered \cup {nHandles}
             /\ connectedDevice' = nHandles
             /\ mounted' = nHandles
             /\ scanActive' = BLE_stopScan
             /\ isScanning' = FALSE
             /\ isConnecting' = FALSE
             /\ selPc' = "idle"
             /\ devices' = {}
             /\ dd' = [dd EXCEPT ![nHandles] = DD_connectToDevice(InitialDetails, nHandles)]
             /\ notificationCallback' = BLE_setCallback(nHandles, InitialDetails.timeoutTimer, nHandles)
        ELSE /\ isConnecting' = FALSE
             /\ selPc' = Connect_afterFailure
             /\ UNCHANGED <<discovered, connectedDevice, mounted, scanActive,
                            isScanning, devices, dd, notificationCallback>>
    /\ UNCHANGED <<targets, unitVars, nHandles, linkUp, listeners, scanOwner, detached, scannerId, scanJob, timers>>

Setup_enabled_unchecked(ok) == ok /\ connectedDevice # 0

\* notificationEnabled at the end of setupWiFiNotification's loop: services()
\* answered (ok) and a target service was there to monitor.  Without it the
\* call throws 'Could not enable notifications'.
Setup_enabled(ok) == ok /\ CanTry(1)

\* setupWiFiNotification: services() answered.  With a target service and a
\* Device the monitor is armed on connectedDevice and the call returns;
\* connectToDevice then waits 1 s.  Otherwise the call throws and
\* connectToDevice's catch shows the error.
Setup_services(i) ==
    /\ dd[i].pc = "setup"
    /\ connectedDevice # 0 => listeners[connectedDevice] < MaxListeners
    /\ \E ok \in BOOLEAN :
        IF Setup_enabled(ok)
        THEN /\ listeners' = [listeners EXCEPT ![connectedDevice] = @ + 1]
             /\ dd' = [dd EXCEPT ![i].pc = "setupDelay"]
        ELSE /\ listeners' = listeners
             /\ dd' = [dd EXCEPT ![i] = Keep(i, Done([@ EXCEPT !.currentState = "error"]))]
    /\ UNCHANGED <<targets, unitVars, bleVars, nHandles, linkUp, discovered, scanVars, detached, appVars, scannerVars, scanJob, selPc, timers>>

\* The 1 s delay of connectToDevice ended: readWiFiList() is called and
\* runs to its own 1 s delay.
Setup_delayed(i) ==
    /\ dd[i].pc = "setupDelay"
    /\ dd' = [dd EXCEPT ![i] = Keep(i, [@ EXCEPT !.pc = "readDelay",
                                                  !.currentState = "readingWiFiList"])]
    /\ UNCHANGED <<targets, unitVars, bleVars, transportVars, scanVars, detached, appVars, scannerVars, scanJob, selPc, timers>>

\* The delay of readWiFiList ended: BLEManager.readWiFiList is called.
\* With no session it throws and the screen shows the error.
Read_delayed(i) ==
    /\ dd[i].pc = "readDelay"
    /\ dd' = [dd EXCEPT ![i] =
                IF BLE_guard(connectedDevice) = "No device connected"
                THEN Keep(i, Done([@ EXCEPT !.currentState = "error"]))
                ELSE [@ EXCEPT !.pc = "readServices"]]
    /\ UNCHANGED <<targets, unitVars, bleVars, transportVars, scanVars, detached, appVars, scannerVars, scanJob, selPc, timers>>

\* readWiFiList of DeviceDetails after BLEManager.readWiFiList returned a
\* list (the parsed value, the mock list when no target service gave a
\* value, or the error list of its outer catch): the form is shown.
Read_finish(i) ==
    Keep(i, Done([dd[i] EXCEPT !.currentState = "configuringWiFi"]))

\* BLEManager.readWiFiList: services() answered.  A rejection is caught and
\* gives the error list; otherwise CE01 of the first target service is read,
\* and with none to try the mock list is returned.
Read_services(i) ==
    /\ dd[i].pc = "readServices"
    /\ \E ok \in BOOLEAN :
        IF ok /\ CanTry(1)
        THEN /\ dd' = [dd EXCEPT ![i].pc = "readChar", ![i].svc = 1,
                                   ![i].tgt = connectedDevice]
        ELSE /\ dd' = [dd EXCEPT ![i] = Read_finish(i)]
    /\ UNCHANGED <<targets, unitVars, bleVars, transportVars, scanVars, detached, appVars, scannerVars, scanJob, selPc, timers>>

\* The read of CE01 answered: a value is parsed and returned; without one
\* the next target service is tried, and after the last the mock list is
\* returned.
Read_char(i) ==
    /\ dd[i].pc = "readChar"
    /\ \E r \in ReadOutcomes(dd[i].tgt) :
        IF r = "value"
        THEN /\ dd' = [dd EXCEPT ![i] = Read_finish(i)]
        ELSE IF CanTry(dd[i].svc + 1)
        THEN /\ dd' = [dd EXCEPT ![i].svc = @ + 1, ![i].tgt = connectedDevice]
        ELSE /\ dd' = [dd EXCEPT ![i] = Read_finish(i)]
    /\ UNCHANGED <<targets, unitVars, bleVars, transportVars, scanVars, detached, appVars, scannerVars, scanJob, selPc, timers>>

\* The instance's record after the synchronous part of sendWiFiCredentials:
\* the waiting screen is shown before the 500 ms delay and the write; the
\* chain carries the currentState and timeoutTimer of the calling render.
Send_start_stateAfterWrite(d) ==
    [d EXCEPT !.pc = "sendDelay",
              !.closure = [currentState |-> d.currentState,
                           timeoutTimer |-> d.timeoutTimer]]

Send_start(d) ==
    [d EXCEPT !.currentState = "waitingForConnection",
              !.confirmedBy = "none",
              !.pc = "sendDelay",
              !.closure = [currentState |-> d.currentState,
                           timeoutTimer |-> d.timeoutTimer]]

\* The submit button of the credential form, which is rendered in state
\* configuringWiFi only (where no chain of the instance is running):
\* sendWiFiCredentials up to its 500 ms delay.  An empty ssid or password
\* (after trim) ends it with an alert.
SendWiFiCredentials(i) ==
    /\ mounted = i
    /\ dd[i].currentState = "configuringWiFi"
    /\ \E selectedSSID \in {"", "Home"}, password \in {"", "secret1"} :
        IF selectedSSID = "" \/ password = ""
        THEN dd' = dd
        ELSE dd' = [dd EXCEPT ![i] = Send_start(@)]
    /\ UNCHANGED <<targets, unitVars, bleVars, transportVars, scanVars, detached, appVars, scannerVars, scanJob, selPc, timers>>

Send_finish_noError(i, sent) ==
    IF sent = "true"
    THEN Keep(i, Done([dd[i] EXCEPT !.nArmed = @ + 1,
                                    !.timeoutTimer = dd[i].nArmed + 1]))
    ELSE Keep(i, Done(dd[i]))

\* sendWiFiCredentials after configureWiFi returned `sent` (or threw): true
\* arms the 40 s timer and stores it, anything else shows the error.
Send_finish(i, sent) ==
    IF sent = "true"
    THEN Keep(i, Done([dd[i] EXCEPT !.nArmed = @ + 1,
                                    !.timeoutTimer = dd[i].nArmed + 1]))
    ELSE Keep(i, Done([dd[i] EXCEPT !.currentState = "error"]))

Send_timers(i, sent) ==
    IF sent = "true"
    THEN timers \cup {[inst |-> i, id |-> dd[i].nArmed + 1, closure |-> dd[i].closure]}
    ELSE timers

\* The 500 ms delay ended: BLEManager.configureWiFi is called; with no
\* session it throws.
Send_delayed(i) ==
    /\ dd[i].pc = "sendDelay"
    /\ IF BLE_guard(connectedDevice) = "No device connected"
       THEN /\ dd' = [dd EXCEPT ![i] = Send_finish(i, "threw")]
            /\ timers' = Send_timers(i, "threw")
       ELSE /\ dd' = [dd EXCEPT ![i].pc = "cfgServices"]
            /\ timers' = timers
    /\ UNCHANGED <<targets, unitVars, bleVars, transportVars, scanVars, detached, appVars, scannerVars, scanJob, selPc>>

\* configureWiFi: services() answered.  A rejection returns false; else the
\* frame is written without response to CE02 of the first target service;
\* with none to try it returns false.
Configure_services(i) ==
    /\ dd[i].pc = "cfgServices"
    /\ \E ok \in BOOLEAN :
        IF ok /\ CanTry(1)
        THEN /\ dd' = [dd EXCEPT ![i].pc = "cfgWrite", ![i].svc = 1,
                                   ![i].tgt = connectedDevice]
             /\ timers' = timers
        ELSE /\ dd' = [dd EXCEPT ![i] = Send_finish(i, "false")]
             /\ timers' = Send_timers(i, "false")
    /\ UNCHANGED <<targets, unitVars, bleVars, transportVars, scanVars, detached, appVars, scannerVars, scanJob, selPc>>

\* The write without response answered: success returns true; a failure
\* tries the write with response on the same service (a null
\* connectedDevice throws into the inner catch, and so for every service
\* left: false).
Configure_written(i) ==
    /\ dd[i].pc = "cfgWrite"
    /\ \E ok \in WriteOutcomes(dd[i].tgt) :
        IF ok
        THEN /\ dd' = [dd EXCEPT ![i] = Send_finish(i, "true")]
             /\ timers' = Send_timers(i, "true")
        ELSE IF connectedDevice # 0
        THEN /\ dd' = [dd EXCEPT ![i].pc = "cfgWriteResp", ![i].tgt = connectedDevice]
             /\ timers' = timers
        ELSE /\ dd' = [dd EXCEPT ![i] = Send_finish(i, "false")]
             /\ timers' = Send_timers(i, "false")
    /\ UNCHANGED <<targets, unitVars, bleVars, transportVars, scanVars, detached, appVars, scannerVars, scanJob, selPc>>

\* The write with response answered: success returns true; a failure goes
\* on to the next target service, and after the last returns false.
Configure_writtenResp(i) ==
    /\ dd[i].pc = "cfgWriteResp"
    /\ \E ok \in WriteOutcomes(dd[i].tgt) :
        IF ok
        THEN /\ dd' = [dd EXCEPT ![i] = Send_finish(i, "true")]
             /\ timers' = Send_timers(i, "true")
        ELSE IF CanTry(dd[i].svc + 1)
        THEN /\ dd' = [dd EXCEPT ![i].pc = "cfgWrite", ![i].svc = @ + 1,
                                   ![i].tgt = connectedDevice]
             /\ timers' = timers
        ELSE /\ dd' = [dd EXCEPT ![i] = Send_finish(i, "false")]
             /\ timers' = Send_timers(i, "false")
    /\ UNCHANGED <<targets, unitVars, bleVars, transportVars, scanVars, detached, appVars, scannerVars, scanJob, selPc>>

\* onWiFiConnected of a render whose timeoutTimer is capT, run for
\* instance i: the timer of that render is cleared, the state is success.
OnWiFiConnected_dd(i, capT, cause) ==
    IF mounted = i
    THEN [dd EXCEPT ![i].currentState = "success",
                    ![i].confirmedBy = cause,
                    ![i].timeoutTimer = IF capT # 0 THEN 0 ELSE @]
    ELSE dd

\* The text the listener passes to the callback for a confirmation.
WIFI_SUCCESS == <<"W", "I", "F", "I", "_", "S", "U", "C", "C", "E", "S", "S">>

isWifiOk_caseSensitive(message) ==
    LET trimmedMessage == Trim(message)
    IN IF IncludesStr(trimmedMessage, <<"w", "i", "f", "i", "_", "o", "k">>) THEN TRUE
       ELSE IF IncludesStr(trimmedMessage, <<"w", "i", "f", "i", " ", "o", "k">>) THEN TRUE
       ELSE IF IncludesStr(trimmedMessage, <<"w", "i", "f", "i", "o", "k">>) THEN TRUE
       ELSE IF trimmedMessage = <<"o", "k">> THEN TRUE
       ELSE IF trimmedMessage = <<"W", "i", "f", "i", "_", "O", "K">> THEN TRUE
       ELSE trimmedMessage = <<"O", "K">>

\* The classifier of the monitor listener: the patterns are looked for in
\* the lowercased, trimmed text (three anywhere in it, 'ok' as the whole
\* text) and in the trimmed text.
isWifiOk(message) ==
    LET lowerMessage == Trim(ToLowerCase(message))
        trimmedMessage == Trim(message)
    IN IF IncludesStr(lowerMessage, <<"w", "i", "f", "i", "_", "o", "k">>) THEN TRUE
       ELSE IF IncludesStr(lowerMessage, <<"w", "i", "f", "i", " ", "o", "k">>) THEN TRUE
       ELSE IF IncludesStr(lowerMessage, <<"w", "i", "f", "i", "o", "k">>) THEN TRUE
       ELSE IF lowerMessage = <<"w", "i", "f", "i", "_", "o", "k">> THEN TRUE
       ELSE IF lowerMessage = <<"o", "k">> THEN TRUE
       ELSE IF trimmedMessage = <<"W", "i", "f", "i", "_", "O", "K">> THEN TRUE
       ELSE IF trimmedMessage = <<"w", "i", "f", "i", "_", "o", "k">> THEN TRUE
       ELSE trimmedMessage = <<"O", "K">>

\* What the listener passes to notificationCallback.
Delivered(message) == IF isWifiOk(message) THEN WIFI_SUCCESS ELSE message

\* The classifier and the listener's argument, tabulated once for the
\* payloads the device sends.
IsWifiOkOf == [m \in Messages |-> isWifiOk(m)]
DeliveredOf == [m \in Messages |-> Delivered(m)]

\* A notification reaches one armed monitor of handle h: its listener
\* classifies it and calls this.notificationCallback, the closure of the
\* last setupWiFiNotification, which acts on 'WIFI_SUCCESS' only.
Notification(h, message) ==
    /\ listeners[h] > 0
    /\ h \in linkUp
    /\ IF notificationCallback.inst # 0 /\ DeliveredOf[message] = WIFI_SUCCESS
       THEN /\ timers' = ClearTimeout(notificationCallback.inst, notificationCallback.timeoutTimer)
            /\ dd' = OnWiFiConnected_dd(notificationCallback.inst, notificationCallback.timeoutTimer,
                                           IF IsWifiOkOf[message] THEN "notification" ELSE "marker")
       ELSE UNCHANGED <<timers, dd>>
    /\ UNCHANGED <<targets, unitVars, bleVars, transportVars, scanVars, detached, appVars, scannerVars, scanJob, selPc>>

\* A 40 s timer armed by instance i fires.  Its handler opens the
\* manual-proceed dialog when the currentState it reads is
\* waitingForConnection; the dialog's buttons set the error state (cancel)
\* or call onWiFiConnected (proceed).
Timeout(i) ==
    /\ \E t \in timers :
        /\ t.inst = i
        /\ IF Timeout_currentState(t) = "waitingForConnection"
           THEN \E proceed \in BOOLEAN :
                  IF proceed
                  THEN /\ timers' = ClearTimeout(i, t.closure.timeoutTimer) \ {t}
                       /\ dd' = OnWiFiConnected_dd(i, t.closure.timeoutTimer, "dialog")
                  ELSE /\ timers' = timers \ {t}
                       /\ dd' = [dd EXCEPT ![i] = Keep(i, [@ EXCEPT !.currentState = "error"])]
           ELSE /\ timers' = timers \ {t}
                /\ dd' = dd
    /\ UNCHANGED <<targets, unitVars, bleVars, transportVars, scanVars, detached, appVars, scannerVars, scanJob, selPc>>

\* The debug button shown while waiting (development builds).
TestNotification(i) ==
    /\ mounted = i
    /\ dd[i].currentState = "waitingForConnection"
    /\ timers' = ClearTimeout(i, dd[i].timeoutTimer)
    /\ dd' = OnWiFiConnected_dd(i, dd[i].timeoutTimer, "testNotification")
    /\ UNCHANGED <<targets, unitVars, bleVars, transportVars, scanVars, detached, appVars, scannerVars, scanJob, selPc>>

\* The retry button of the error screen (where no chain of the instance is
\* running): the timer of the render is cleared and connectToDevice runs
\* again.
RetryConnection(i) ==
    /\ mounted = i
    /\ dd[i].currentState = "error"
    /\ timers' = ClearTimeout(i, dd[i].timeoutTimer)
    /\ dd' = [dd EXCEPT ![i] = DD_connectToDevice([@ EXCEPT !.timeoutTimer = 0], connectedDevice)]
    /\ notificationCallback' = BLE_setCallback(i, dd[i].timeoutTimer, connectedDevice)
    /\ UNCHANGED <<targets, unitVars, connectedDevice, transportVars, scanVars, detached, appVars, scannerVars, scanJob, selPc>>

\* App shows the scanner again: DeviceDetails instance j unmounts.  Its
\* cleanup clears the timer it reads and calls BLEManager.disconnectDevice
\* without awaiting it; its React state is gone; a new DeviceScanner
\* instance mounts.
Unmount_dd(j) ==
    [dd EXCEPT ![j].currentState = InitialDetails.currentState,
               ![j].timeoutTimer = InitialDetails.timeoutTimer,
               ![j].isCompletingSetup = InitialDetails.isCompletingSetup,
               ![j].confirmedBy = InitialDetails.confirmedBy]

Unmount(j) ==
    /\ mounted' = 0
    /\ scannerId' = j
    /\ isScanning' = FALSE
    /\ isConnecting' = FALSE
    /\ devices' = {}
    /\ timers' = ClearTimeout(j, Cleanup_timeoutTimer(j))
    /\ linkUp' = BLE_disconnect_link
    /\ detached' = IF connectedDevice = 0 THEN detached ELSE detached + 1

\* The back arrow of the app bar (and the back button of the error screen).
OnBack(i) ==
    /\ mounted = i
    /\ Unmount(i)
    /\ dd' = EndedOn_live(Unmount_dd(i), BLE_disconnect_link)
    /\ UNCHANGED <<targets, unitVars, bleVars, nHandles, discovered, listeners, scanVars, scanJob, selPc>>

\* A disconnectDevice that nobody awaits ends: its finally clears
\* connectedDevice.
Disconnect_detached ==
    /\ detached > 0
    /\ detached' = detached - 1
    /\ \E ok \in BOOLEAN : connectedDevice' = BLE_disconnect_finally(connectedDevice, ok)
    /\ UNCHANGED <<targets, unitVars, notificationCallback, transportVars, scanVars, appVars, scannerVars, scanJob, selPc, dd, timers>>

Complete_afterEnd_disconnectFirst == "disconnect"

\* The step of completeSetup that follows a sent end frame:
\* addDeviceToSystem (step 2), before disconnectDevice (step 3).
Complete_afterEnd == "addDevice"

Complete_failed_rollback(i) ==
    Keep(i, Done2([dd[i] EXCEPT !.isCompletingSetup = FALSE, !.currentState = "error"]))

\* completeSetup failed at some step: its catch re-enables the button and
\* shows an alert; currentState is not touched.
Complete_failed(i) ==
    Keep(i, Done2([dd[i] EXCEPT !.isCompletingSetup = FALSE]))

\* The confirm button of the success screen: completeSetup up to the await
\* inside sendEndCommand, which throws with no session.
CompleteSetup(i) ==
    /\ mounted = i
    /\ dd[i].currentState = "success"
    /\ ~dd[i].isCompletingSetup
    /\ dd[i].pc2 = "idle"
    /\ dd' = [dd EXCEPT ![i] =
                IF BLE_guard(connectedDevice) = "No device connected"
                THEN [Complete_failed(i) EXCEPT !.isCompletingSetup = FALSE]
                ELSE [@ EXCEPT !.isCompletingSetup = TRUE, !.pc2 = "endServices"]]
    /\ UNCHANGED <<targets, unitVars, bleVars, transportVars, scanVars, detached, appVars, scannerVars, scanJob, selPc, timers>>

\* sendEndCommand: services() answered.  The end frame is written without
\* response to CE02 of the first target service; a rejection, or no service
\* to try, returns false and completeSetup throws.
End_services(i) ==
    /\ dd[i].pc2 = "endServices"
    /\ \E ok \in BOOLEAN :
        IF ok /\ CanTry(1)
        THEN /\ dd' = [dd EXCEPT ![i].pc2 = "endWrite", ![i].svc2 = 1,
                                   ![i].tgt2 = connectedDevice]
        ELSE /\ dd' = [dd EXCEPT ![i] = Complete_failed(i)]
    /\ UNCHANGED <<targets, unitVars, bleVars, transportVars, scanVars, detached, appVars, scannerVars, scanJob, selPc, timers>>

\* The end write answered: success returns true and addDeviceToSystem waits
\* its 800 ms; a failure tries the next target service, then returns false.
End_written(i) ==
    /\ dd[i].pc2 = "endWrite"
    /\ \E ok \in WriteOutcomes(dd[i].tgt2) :
        IF ok
        THEN /\ dd' = [dd EXCEPT ![i].pc2 = Complete_afterEnd, ![i].svc2 = 0, ![i].tgt2 = 0,
                                   ![i].endedOn = dd[i].tgt2]
        ELSE IF CanTry(dd[i].svc2 + 1)
        THEN /\ dd' = [dd EXCEPT ![i].svc2 = @ + 1, ![i].tgt2 = connectedDevice]
        ELSE /\ dd' = [dd EXCEPT ![i] = Complete_failed(i)]
    /\ UNCHANGED <<targets, unitVars, bleVars, transportVars, scanVars, detached, appVars, scannerVars, scanJob, selPc, timers>>

\* addDeviceToSystem returned true: disconnectDevice is awaited; with no
\* session it returns at once and the success alert is shown.
Complete_added(i) ==
    /\ dd[i].pc2 = "addDevice"
    /\ linkUp' = BLE_disconnect_link
    /\ dd' = EndedOn_live([dd EXCEPT ![i].pc2 = IF connectedDevice = 0 THEN "alert" ELSE "disconnect"],
                           BLE_disconnect_link)
    /\ UNCHANGED <<targets, unitVars, bleVars, nHandles, discovered, listeners, scanVars, detached, appVars, scannerVars, scanJob, selPc, timers>>

\* The awaited disconnectDevice ended: the success alert is shown.
Complete_disconnected(i) ==
    /\ dd[i].pc2 = "disconnect"
    /\ \E ok \in BOOLEAN : connectedDevice' = BLE_disconnect_finally(connectedDevice, ok)
    /\ dd' = [dd EXCEPT ![i].pc2 = "alert"]
    /\ UNCHANGED <<targets, unitVars, notificationCallback, transportVars, scanVars, detached, appVars, scannerVars, scanJob, selPc, timers>>

\* OK of the success alert: onDeviceAdded, where App shows the scanner
\* again, whichever DeviceDetails instance is shown by then.
Complete_alertOk(i) ==
    /\ dd[i].pc2 = "alert"
    /\ IF mounted # 0
       THEN /\ Unmount(mounted)
            /\ dd' = EndedOn_live([Unmount_dd(mounted) EXCEPT ![i].pc2 = "idle"],
                                   BLE_disconnect_link)
       ELSE /\ dd' = [dd EXCEPT ![i].pc2 = "idle"]
            /\ UNCHANGED <<mounted, scannerId, isScanning, isConnecting, devices, timers, linkUp, detached>>
    /\ UNCHANGED <<targets, unitVars, bleVars, nHandles, discovered, listeners, scanVars, scanJob, selPc>>

Next ==
    \/ StartScan
    \/ \E s \in ScanSlots : ScanForDevices_started(s)
    \/ \E s \in ScanSlots : ScanTimeout(s)
    \/ StopScan
    \/ \E d \in DeviceIds : OnDeviceFound(d)
    \/ \E d \in DeviceIds : SelectDevice(d)
    \/ Connect_disconnected
    \/ Connect_connected
    \/ Connect_discovered
    \/ \E i \in Instances : Setup_services(i)
    \/ \E i \in Instances : Setup_delayed(i)
    \/ \E i \in Instances : Read_delayed(i)
    \/ \E i \in Instances : Read_services(i)
    \/ \E i \in Instances : Read_char(i)
    \/ \E i \in Instances : SendWiFiCredentials(i)
    \/ \E i \in Instances : Send_delayed(i)
    \/ \E i \in Instances : Configure_services(i)
    \/ \E i \in Instances : Configure_written(i)
    \/ \E i \in Instances : Configure_writtenResp(i)
    \/ \E h \in Handles, m \in Messages : Notification(h, m)
    \/ \E i \in Instances : Timeout(i)
    \/ \E i \in Instances : TestNotification(i)
    \/ \E i \in Instances : RetryConnection(i)
    \/ \E i \in Instances : OnBack(i)
    \/ Disconnect_detached
    \/ \E i \in Instances : CompleteSetup(i)
    \/ \E i \in Instances : End_services(i)
    \/ \E i \in Instances : End_written(i)
    \/ \E i \in Instances : Complete_added(i)
    \/ \E i \in Instances : Complete_disconnected(i)
    \/ \E i \in Instances : Complete_alertOk(i)

Spec == Init /\ [][Next]_vars

\* ------------------------------------------- readWiFiList and its parser
\* The length bounds of a network name in parseWiFiNetworks.
MinSsid == 3
MaxSsid == 32

\* Segments a payload is built of.
MaxSegments == 3

Rep(c, n) == [i \in 1..n |-> c]

\* Segments of list payloads: names, names wrapped in 0x00 or in spaces,
\* names one character below and above the bounds, the empty segment.
Pieces ==
    { <<"H", "o", "m", "e">>,
      <<"O", "f", "f", "i", "c", "e">>,
      <<NUL, "G", "u", "e", "s", "t", NUL>>,
      <<"a", "b">>,
      <<" ", "a", "b", " ">>,
      <<NUL, "a", "b">>,
      Rep("x", MaxSsid),
      Rep("x", MaxSsid + 1),
      <<>> }

Separators == {ACK, ",", LF}

RECURSIVE Join(_, _)
Join(parts, sep) ==
    IF Len(parts) = 1 THEN parts[1]
    ELSE parts[1] \o <<sep>> \o Join(Tail(parts), sep)

\* Names in the longest list payload.
MaxNames == 21

\* The values CE01 can hold: up to MaxSegments segments joined by one of
\* the separators, and a long list of MaxNames different names.
Payloads ==
    { Join(ps, sep) :
        ps \in UNION {[1..n -> Pieces] : n \in 1..MaxSegments},
        sep \in Separators }
    \cup { Join([k \in 1..MaxNames |-> Rep("a", k + 2)], sep) : sep \in Separators }

\* part.replace(/\x00/g, '').trim()
Cleaned(part) == Trim(SelectSeq(part, LAMBDA c : c # NUL))

\* The final filter of parseWiFiNetworks: an element stays where indexOf
\* finds it first.
RECURSIVE Unique(_)
Unique(list) ==
    IF list = <<>> THEN <<>>
    ELSE LET front == Unique(SubSeq(list, 1, Len(list) - 1))
             last == list[Len(list)]
         IN IF \E j \in 1..Len(front) : front[j] = last
            THEN front
            ELSE Append(front, last)

Parse_keepAck_noUpperBound(cleaned) == Len(cleaned) >= MinSsid

\* The test of the 0x06 branch on a cleaned segment.
Parse_keepAck(cleaned) == Len(cleaned) >= MinSsid /\ Len(cleaned) <= MaxSsid

\* The test of the comma, newline and whole-payload branches.
Parse_keep(cleaned) == Len(cleaned) >= MinSsid

\* BLEService.parseWiFiNetworks.
parseWiFiNetworks(raw) ==
    LET found ==
            IF Includes(raw, ACK)
            THEN SelectSeq([i \in 1..Len(Split(raw, ACK)) |-> Cleaned(Split(raw, ACK)[i])],
                           Parse_keepAck)
            ELSE IF Includes(raw, ",")
            THEN SelectSeq([i \in 1..Len(Split(raw, ",")) |-> Trim(Split(raw, ",")[i])],
                           Parse_keep)
            ELSE IF Includes(raw, LF)
            THEN SelectSeq([i \in 1..Len(Split(raw, LF)) |-> Trim(Split(raw, LF)[i])],
                           Parse_keep)
            ELSE IF Parse_keep(Trim(raw)) THEN <<Trim(raw)>>
            ELSE <<>>
    IN Unique(found)

\* What readWiFiList returns when no target service gave a value, and what
\* its outer catch returns.
MockNetworks ==
    << <<"T", "e", "s", "t", "W", "i", "F", "i", "_", "1">>,
       <<"T", "e", "s", "t", "W", "i", "F", "i", "_", "2">>,
       <<"M", "y", "R", "o", "u", "t", "e", "r">> >>

ErrorNetworks ==
    << <<"E", "r", "r", "o", "r", "N", "e", "t", "w", "o", "r", "k", "_", "1">>,
       <<"E", "r", "r", "o", "r", "N", "e", "t", "w", "o", "r", "k", "_", "2">> >>

\* BLEService.readWiFiList is called on a connected device: services() is
\* awaited.
ReadWiFiList_call ==
    /\ listPc = "idle"
    /\ listPc' = "services"
    /\ UNCHANGED <<targets, programVars, cfgVars, scanCbVars, notifyVars, rawData, networks, listSvc, readFailed>>

\* The call returns list, at one of its three return statements: "parsed"
\* (a value of CE01), "mock" (no value found), "caught" (the outer catch).
ReadWiFiList_return(list, at) ==
    /\ networks' = list
    /\ listPc' = at
    /\ listSvc' = 0

\* services() answered: a rejection goes to the outer catch; otherwise the
\* first target service is read, and with none the mock list is returned.
ReadWiFiList_services ==
    /\ listPc = "services"
    /\ \E ok \in BOOLEAN :
        IF ~ok THEN ReadWiFiList_return(ErrorNetworks, "caught")
        ELSE IF targets >= 1
        THEN /\ listPc' = "read"
             /\ listSvc' = 1
             /\ networks' = networks
        ELSE ReadWiFiList_return(MockNetworks, "mock")
    /\ UNCHANGED <<targets, programVars, cfgVars, scanCbVars, notifyVars, rawData, readFailed>>

\* The read of CE01 answered: a value is parsed and returned; a
\* characteristic without value, or a rejected read, leads to the next
\* target service and after the last to the mock list.
ReadWiFiList_read ==
    /\ listPc = "read"
    /\ \E r \in {"value", "novalue", "error"} :
        /\ readFailed' = IF r = "error" THEN TRUE ELSE readFailed
        /\ IF r = "value" THEN ReadWiFiList_return(parseWiFiNetworks(rawData), "parsed")
           ELSE IF listSvc < targets
           THEN /\ listSvc' = listSvc + 1
                /\ UNCHANGED <<networks, listPc>>
           ELSE ReadWiFiList_return(MockNetworks, "mock")
    /\ UNCHANGED <<targets, programVars, cfgVars, scanCbVars, notifyVars, rawData>>

\* A call of readWiFiList with any value of CE01.
ListInit ==
    /\ ProgramInit
    /\ NotifyIdle
    /\ ScanCbIdle
    /\ CfgIdle
    /\ rawData \in Payloads
    /\ networks = <<>>
    /\ listPc = "idle"
    /\ listSvc = 0
    /\ readFailed = FALSE

ListNext ==
    \/ ReadWiFiList_call
    \/ ReadWiFiList_services
    \/ ReadWiFiList_read

SpecList == ListInit /\ [][ListNext]_vars

\* ------------------------------------------- the listener of a monitor
\* Notification texts: a pattern or another word, alone or with white
\* space or other characters around it.
Texts ==
    { before \o word \o after :
        before \in { <<>>, <<" ", " ">>, <<"x">>, <<"i", "s", " ">> },
        word \in { <<"w", "i", "f", "i", "_", "o", "k">>,
                   <<"W", "i", "f", "i", "_", "O", "K">>,
                   <<"W", "I", "F", "I", " ", "O", "K">>,
                   <<"w", "i", "f", "i", "o", "k">>,
                   <<"o", "k">>,
                   <<"O", "K">>,
                   <<"b", "o", "o", "k">>,
                   <<"w", "i", "f", "i", "_", "f", "a", "i", "l", "e", "d">>,
                   WIFI_SUCCESS },
        after \in { <<>>, <<" ", " ">>, <<"x">>, <<"!">> } }

\* The listener of one more monitor runs for the notification: it
\* classifies the text and calls notificationCallback.
Listener_run ==
    /\ handled < monitors
    /\ handled' = handled + 1
    /\ calls' = Append(calls, [isWifiOk |-> isWifiOk(notifiedText),
                               arg |-> Delivered(notifiedText)])
    /\ UNCHANGED <<targets, programVars, cfgVars, scanCbVars, listVars, notifiedText, monitors>>

\* A notification with any text arrives on a connection with one monitor,
\* or with the monitors that repeated setupWiFiNotification calls leave.
NotifyInit ==
    /\ ProgramInit
    /\ ListIdle
    /\ ScanCbIdle
    /\ CfgIdle
    /\ notifiedText \in Texts
    /\ monitors \in 1..MaxListeners
    /\ handled = 0
    /\ calls = <<>>

NotifyNext == Listener_run

SpecNotify == NotifyInit /\ [][NotifyNext]_vars

\* ------------------------------------- the scan callback of scanForDevices
\* Scan callbacks followed in one device scan.
MaxAdverts == 3

DEVICE_NAME_PREFIX == <<"G", "C", "-">>

\* Advertised names: with the prefix and a serial number the validator
\* accepts or rejects, with the prefix twice, with other prefixes, with the
\* prefix inside, and no name (null or empty).
Names ==
    { <<"G", "C", "-", "X", "Y", "Z", "1", "2", "3">>,
      <<"G", "C", "-", "A", "B">>,
      <<"G", "C", "-", "a", "b", "c">>,
      <<"G", "C", "-", "G", "C", "-", "A", "B", "C">>,
      <<"X", "X", "-", "X", "Y", "Z", "1", "2", "3">>,
      <<"g", "c", "-", "X", "Y", "Z", "1", "2", "3">>,
      <<"X", "G", "C", "-", "A", "B", "C">>,
      <<>> }

\* The devices in range, with the rssi of each (0 where the transport
\* reports none).
AdvertIds == {"AA:BB", "CC:DD"}
RssiOf == [id \in AdvertIds |-> IF id = "AA:BB" THEN -60 ELSE 0]

\* String.prototype.startsWith.
StartsWith(str, prefix) ==
    Len(str) >= Len(prefix) /\ SubSeq(str, 1, Len(prefix)) = prefix

\* String.prototype.replace(pattern, '') for a string pattern: the first
\* occurrence is removed.
RemoveFirst(str, pattern) ==
    IF ~IncludesStr(str, pattern) THEN str
    ELSE LET i == CHOOSE k \in 0..(Len(str) - Len(pattern)) :
                    /\ SubSeq(str, k + 1, k + Len(pattern)) = pattern
                    /\ \A j \in 0..(k - 1) : SubSeq(str, j + 1, j + Len(pattern)) # pattern
         IN SubSeq(str, 1, i) \o SubSeq(str, i + Len(pattern) + 1, Len(str))

Scan_accepts_prefixAnywhere(name) == name # <<>> /\ IncludesStr(name, DEVICE_NAME_PREFIX)

\* The filter of the scan callback on the advertised name.
Scan_accepts(name) == name # <<>> /\ StartsWith(name, DEVICE_NAME_PREFIX)

\* Extract serial number from name "GC-<SN>".
Scan_serialNumber(name) == RemoveFirst(name, DEVICE_NAME_PREFIX)

Scan_found_afterValidation(found, id) == found

\* foundDevices.add(device.id), before the validation is awaited.
Scan_found(found, id) == found \cup {id}

\* The characters /^[A-Z0-9]+$/ accepts.
SerialChars ==
    {UpperCase[k] : k \in 1..Len(UpperCase)}
        \cup {"0", "1", "2", "3", "4", "5", "6", "7", "8", "9"}

\* validateDeviceRegistration (the mock): what it returns after its delay.
validateDeviceRegistration(serialNumber) ==
    Len(serialNumber) >= 3 /\ \A i \in 1..Len(serialNumber) : serialNumber[i] \in SerialChars

Scan_surfaces_always(isValid) == TRUE

\* Whether the callback calls onDeviceFound after the validation.
Scan_surfaces(isValid) == isValid

\* The functional update of setDevices in startScan's onDeviceFound: a
\* device whose id is listed changes nothing; a new one is added and the
\* list sorted by rssi, strongest first (the sort is stable).
SetDevices(prev, device) ==
    IF \E k \in 1..Len(prev) : prev[k].id = device.id THEN prev
    ELSE LET stronger == SelectSeq(prev, LAMBDA d : d.rssi >= device.rssi)
             weaker == SelectSeq(prev, LAMBDA d : d.rssi < device.rssi)
         IN stronger \o <<device>> \o weaker

\* The scan callback is called with a device: a device without the name
\* prefix, or whose id was accepted before, is dropped; otherwise its id is
\* recorded and the validation of its serial number is awaited.
Scan_callback(id, name) ==
    /\ ~scanStopped
    /\ Len(adverts) < MaxAdverts
    /\ adverts' = Append(adverts, [id |-> id, name |-> name])
    /\ IF Scan_accepts(name) /\ id \notin foundDevices
       THEN /\ foundDevices' = Scan_found(foundDevices, id)
            /\ validating' = Append(validating,
                    [id |-> id, name |-> name, rssi |-> RssiOf[id],
                     serialNumber |-> Scan_serialNumber(name), run |-> scanRun])
       ELSE UNCHANGED <<foundDevices, validating>>
    /\ UNCHANGED <<targets, programVars, cfgVars, listVars, notifyVars,
                   validations, onDeviceFoundCalls, deviceList, scanRun, scanStopped>>

\* The validation awaited by the k-th waiting callback returns: a valid
\* device is passed to the onDeviceFound of its scanForDevices call, which
\* updates the scanner's list; each call is noted with the scan that made
\* it and with the scan that runs, or has been stopped, by then.
Validate_done(k) ==
    /\ k \in 1..Len(validating)
    /\ LET v == validating[k]
           isValid == validateDeviceRegistration(v.serialNumber)
           esp32Device == [id |-> v.id, name |-> v.name,
                           rssi |-> IF v.rssi = 0 THEN -100 ELSE v.rssi,
                           serialNumber |-> v.serialNumber]
       IN /\ validating' = [i \in 1..(Len(validating) - 1) |->
                                IF i < k THEN validating[i] ELSE validating[i + 1]]
          /\ validations' = validations \cup
                {[id |-> v.id, serialNumber |-> v.serialNumber, isValid |-> isValid]}
          /\ IF Scan_surfaces(isValid)
             THEN /\ onDeviceFoundCalls' = Append(onDeviceFoundCalls,
                        [id |-> v.id, name |-> v.name, rssi |-> esp32Device.rssi,
                         serialNumber |-> v.serialNumber,
                         run |-> v.run, atRun |-> scanRun, stopped |-> scanStopped])
                  /\ deviceList' = SetDevices(deviceList, esp32Device)
             ELSE UNCHANGED <<onDeviceFoundCalls, deviceList>>
    /\ UNCHANGED <<targets, programVars, cfgVars, listVars, notifyVars, adverts, foundDevices,
                   scanRun, scanStopped>>

\* startDeviceScan was called by scanForDevices with a new foundDevices.
ScanCbInit ==
    /\ ProgramInit
    /\ ListIdle
    /\ NotifyIdle
    /\ ScanCbIdle
    /\ CfgIdle

ScanCbNext ==
    \/ \E id \in AdvertIds, name \in Names : Scan_callback(id, name)
    \/ \E k \in 1..MaxAdverts : Validate_done(k)

SpecScanCb == ScanCbInit /\ [][ScanCbNext]_vars

\* scanForDevices calls of one scanner that are followed.
MaxRuns == 2

\* The stop button of the scanner: stopScan stops the device scan; no
\* callback arrives any more, the callbacks that wait in
\* validateDeviceRegistration go on.
Scan_stop ==
    /\ ~scanStopped
    /\ scanStopped' = TRUE
    /\ UNCHANGED <<targets, programVars, cfgVars, listVars, notifyVars, adverts, foundDevices,
                   validating, validations, onDeviceFoundCalls, deviceList, scanRun>>

\* The scan button after a stop: startScan empties the list and
\* scanForDevices starts a device scan with a new foundDevices.
Scan_again ==
    /\ scanStopped
    /\ scanRun < MaxRuns
    /\ scanRun' = scanRun + 1
    /\ scanStopped' = FALSE
    /\ deviceList' = <<>>
    /\ foundDevices' = {}
    /\ UNCHANGED <<targets, programVars, cfgVars, listVars, notifyVars, adverts,
                   validating, validations, onDeviceFoundCalls>>

\* Scans of one scanner, stopped and started again.
ScanStopNext ==
    \/ \E id \in AdvertIds, name \in Names : Scan_callback(id, name)
    \/ \E k \in 1..MaxAdverts : Validate_done(k)
    \/ Scan_stop
    \/ Scan_again

SpecScanStop == ScanCbInit /\ [][ScanStopNext]_vars

\* ------------------------------------------------------------ configureWiFi
\* Target services in the list that services() returns to configureWiFi.
MaxServices == 2

EOT == "x04"

Digits == <<"0", "1", "2", "3", "4", "5", "6", "7", "8", "9">>

\* The code unit of each character used here; "u00E0" is a character of
\* Latin-1, "u1EC7" a character beyond it.
CodeTable ==
    {<<UpperCase[k], 64 + k>> : k \in 1..Len(UpperCase)}
        \cup {<<LowerCase[k], 96 + k>> : k \in 1..Len(LowerCase)}
        \cup {<<Digits[k], 47 + k>> : k \in 1..Len(Digits)}
        \cup { <<NUL, 0>>, <<EOT, 4>>, <<ACK, 6>>, <<LF, 10>>, <<" ", 32>>,
               <<"!", 33>>, <<"\"", 34>>, <<"*", 42>>, <<"+", 43>>, <<"-", 45>>,
               <<"/", 47>>, <<":", 58>>, <<"=", 61>>, <<"@", 64>>, <<"\\", 92>>,
               <<"_", 95>>, <<"u00E0", 224>>, <<"u1EC7", 7879>> }

\* String.prototype.charCodeAt and String.fromCharCode.
CharCodeAt(c) == (CHOOSE p \in CodeTable : p[1] = c)[2]

FromCharCode(n) == (CHOOSE p \in CodeTable : p[2] = n)[1]

\* The base64 alphabet.
B64 == UpperCase \o LowerCase \o Digits \o <<"+", "/">>

\* btoa throws on a character whose code unit is above 255.
BtoaThrows(str) == \E i \in 1..Len(str) : CharCodeAt(str[i]) > 255

\* btoa: three bytes give four characters; a last group of one or two
\* bytes is padded with '='.
Btoa(str) ==
    LET n == Len(str)
        byte(i) == IF i <= n THEN CharCodeAt(str[i]) ELSE 0
        out(p) ==
            LET g == (p - 1) \div 4
                j == (p - 1) % 4
                b0 == byte(3 * g + 1)
                b1 == byte(3 * g + 2)
                b2 == byte(3 * g + 3)
            IN IF j = 0 THEN B64[(b0 \div 4) + 1]
               ELSE IF j = 1 THEN B64[((b0 % 4) * 16) + (b1 \div 16) + 1]
               ELSE IF j = 2
               THEN IF 3 * g + 2 > n THEN "=" ELSE B64[((b1 % 16) * 4) + (b2 \div 64) + 1]
               ELSE IF 3 * g + 3 > n THEN "=" ELSE B64[(b2 % 64) + 1]
    IN [p \in 1..(4 * ((n + 2) \div 3)) |-> out(p)]

\* atob, as the transport (and the code, on values it reads) decodes a
\* base64 value.
Atob(text) ==
    LET n == Len(text)
        pad == Cardinality({p \in 1..n : text[p] = "="})
        sextet(p) == IF text[p] = "=" THEN 0
                     ELSE (CHOOSE k \in 1..Len(B64) : B64[k] = text[p]) - 1
        byte(i) ==
            LET g == (i - 1) \div 3
                j == (i - 1) % 3
                s0 == sextet(4 * g + 1)
                s1 == sextet(4 * g + 2)
                s2 == sextet(4 * g + 3)
                s3 == sextet(4 * g + 4)
            IN IF j = 0 THEN (s0 * 4) + (s1 \div 16)
               ELSE IF j = 1 THEN ((s1 % 16) * 16) + (s2 \div 4)
               ELSE ((s2 % 4) * 64) + s3
    IN [i \in 1..((3 * (n \div 4)) - pad) |-> FromCharCode(byte(i))]

\* The network names and passwords configureWiFi is called with: the
\* spec's example, names with a Latin-1 and with a wider character,
\* passwords of the same length with different content, and of lengths
\* that leave one and two bytes in the last base64 group.
Ssids ==
    { <<"H", "o", "m", "e">>,
      <<"N", "h", "u00E0">>,
      <<"V", "i", "u1EC7", "t">> }

Passwords ==
    { <<"s", "e", "c", "r", "e", "t", "1">>,
      <<"t", "e", "r", "c", "e", "s", "2">>,
      <<"p", "@", "s", "s", "w", "0", "r", "d">>,
      <<"p", "@", "s", "s", "w", "0", "r", "d", "!">> }

\* password.replace(/./g, '*'): every character but a line terminator.
Mask(str) == [i \in 1..Len(str) |-> IF str[i] = LF THEN LF ELSE "*"]

Cfg_command_noSeparator(s, p) == <<"_", "U", "W", "F", ":">> \o s \o p \o <<EOT>>

\* The command of configureWiFi: `_UWF:${ssid}\x06${password}\x04`.
Cfg_command(s, p) == <<"_", "U", "W", "F", ":">> \o s \o <<ACK>> \o p \o <<EOT>>

\* A call of console.log or console.error: the label and the value logged
\* with it, as text or as numbers.
Say(label, text, numbers) == [label |-> label, text |-> text, numbers |-> numbers]

\* What configureWiFi logs before its first await: the name, the masked
\* password, then the command as text and as hex bytes, and its length;
\* when btoa throws, the error instead of the last four.
Cfg_logged(s, p) ==
    LET command == Cfg_command(s, p)
        head == << Say("=== Sending WiFi Credentials ===", <<>>, <<>>),
                   Say("SSID:", <<"\"">> \o s \o <<"\"">>, <<>>),
                   Say("Password:", <<"\"">> \o Mask(p) \o <<"\"">>, <<>>) >>
    IN IF BtoaThrows(command)
       THEN head \o <<Say("Error sending WiFi credentials:", <<>>, <<>>)>>
       ELSE head \o
            << Say("Data to send:", <<>>, <<>>),
               Say("  String representation:",
                   <<"\"", "_", "U", "W", "F", ":">> \o s \o <<"\\", "x", "0", "6">>
                       \o p \o <<"\\", "x", "0", "4", "\"">>, <<>>),
               Say("  Hex bytes:", <<>>,
                   [i \in 1..Len(command) |-> CharCodeAt(command[i])]),
               Say("  Length:", <<>>, <<Len(command)>>) >>

\* configureWiFi is called: with no session it throws; otherwise it logs,
\* builds and encodes the command (btoa may throw into the outer catch,
\* which returns false) and awaits services().
Cfg_call ==
    /\ cfgPc = "idle"
    /\ IF ~cfgSession
       THEN /\ cfgPc' = "threw"
            /\ logged' = logged
       ELSE /\ logged' = Cfg_logged(cfgSsid, cfgPassword)
            /\ cfgPc' = IF BtoaThrows(Cfg_command(cfgSsid, cfgPassword)) THEN "false" ELSE "services"
    /\ UNCHANGED <<targets, programVars, listVars, notifyVars, scanCbVars,
                   cfgSsid, cfgPassword, cfgServices, cfgSession, cfgSvc, written>>

\* A disconnectDevice of another chain ends while the call awaits: its
\* finally clears connectedDevice.
Cfg_sessionCleared ==
    /\ cfgSession
    /\ cfgPc \in {"services", "write", "writeResp"}
    /\ cfgSession' = FALSE
    /\ UNCHANGED <<targets, programVars, listVars, notifyVars, scanCbVars,
                   cfgSsid, cfgPassword, cfgServices, cfgPc, cfgSvc, written, logged>>

\* What the loop logs for n target services when connectedDevice is null:
\* both writes of each throw into their catch; then the loop ends.
Cfg_nullSession(n) ==
    [k \in 1..(4 * n) |->
        IF k % 4 = 1 THEN Say("Trying writeWithoutResponse...", <<>>, <<>>)
        ELSE IF k % 4 = 2 THEN Say("Write failed for service:", <<>>, <<>>)
        ELSE IF k % 4 = 3 THEN Say("Trying writeWithResponse...", <<>>, <<>>)
        ELSE Say("Write with response also failed:", <<>>, <<>>)]
    \o <<Say("All write methods failed", <<>>, <<>>)>>

\* The loop goes on with target service k (or ends after the last): the
\* write without response is issued on it; with connectedDevice null every
\* write left throws and the call returns false.
Cfg_tryService(k, said) ==
    IF k > cfgServices
    THEN /\ cfgPc' = "false"
         /\ cfgSvc' = 0
         /\ logged' = logged \o said \o <<Say("All write methods failed", <<>>, <<>>)>>
    ELSE IF ~cfgSession
    THEN /\ cfgPc' = "false"
         /\ cfgSvc' = 0
         /\ logged' = logged \o said \o Cfg_nullSession(cfgServices - k + 1)
    ELSE /\ cfgPc' = "write"
         /\ cfgSvc' = k
         /\ logged' = logged \o said \o <<Say("Trying writeWithoutResponse...", <<>>, <<>>)>>

\* services() answered: a rejection is caught and returns false.
Cfg_services ==
    /\ cfgPc = "services"
    /\ \E ok \in BOOLEAN :
        IF ok THEN Cfg_tryService(1, <<>>)
        ELSE /\ cfgPc' = "false"
             /\ cfgSvc' = 0
             /\ logged' = Append(logged, Say("Error sending WiFi credentials:", <<>>, <<>>))
    /\ UNCHANGED <<targets, programVars, listVars, notifyVars, scanCbVars,
                   cfgSsid, cfgPassword, cfgServices, cfgSession, written>>

Cfg_returnsAfter_never(ok) == FALSE

\* Whether configureWiFi returns true after a write: when it resolved.
Cfg_returnsAfter(ok) == ok

\* The write without response answered: resolved, the call returns true;
\* rejected, the write with response is issued on the same service (with
\* connectedDevice null it throws, and so does every write left).
Cfg_written ==
    /\ cfgPc = "write"
    /\ \E ok \in BOOLEAN :
        /\ written' = Append(written,
                [mode |-> "withoutResponse", service |-> cfgSvc,
                 value |-> Btoa(Cfg_command(cfgSsid, cfgPassword)), ok |-> ok])
        /\ IF Cfg_returnsAfter(ok)
           THEN /\ cfgPc' = "true"
                /\ cfgSvc' = 0
                /\ logged' = logged \o
                      << Say("WiFi credentials sent successfully!", <<>>, <<>>),
                         Say("Now waiting for Wifi_OK notification...", <<>>, <<>>) >>
           ELSE IF ~cfgSession
           THEN /\ cfgPc' = "false"
                /\ cfgSvc' = 0
                /\ logged' = logged
                      \o << Say("Write failed for service:", <<>>, <<>>),
                            Say("Trying writeWithResponse...", <<>>, <<>>),
                            Say("Write with response also failed:", <<>>, <<>>) >>
                      \o Cfg_nullSession(cfgServices - cfgSvc)
           ELSE /\ cfgPc' = "writeResp"
                /\ cfgSvc' = cfgSvc
                /\ logged' = logged \o
                      << Say("Write failed for service:", <<>>, <<>>),
                         Say("Trying writeWithResponse...", <<>>, <<>>) >>
    /\ UNCHANGED <<targets, programVars, listVars, notifyVars, scanCbVars,
                   cfgSsid, cfgPassword, cfgServices, cfgSession>>

\* The write with response answered: resolved, the call returns true;
\* rejected, the loop goes on with the next target service.
Cfg_writtenResp ==
    /\ cfgPc = "writeResp"
    /\ \E ok \in BOOLEAN :
        /\ written' = Append(written,
                [mode |-> "withResponse", service |-> cfgSvc,
                 value |-> Btoa(Cfg_command(cfgSsid, cfgPassword)), ok |-> ok])
        /\ IF Cfg_returnsAfter(ok)
           THEN /\ cfgPc' = "true"
                /\ cfgSvc' = 0
                /\ logged' = Append(logged, Say("WiFi credentials sent with response!", <<>>, <<>>))
           ELSE Cfg_tryService(cfgSvc + 1,
                    <<Say("Write with response also failed:", <<>>, <<>>)>>)
    /\ UNCHANGED <<targets, programVars, listVars, notifyVars, scanCbVars,
                   cfgSsid, cfgPassword, cfgServices, cfgSession>>

\* A call of configureWiFi with any name and password, on a device with
\* any number of target services, with or without a session.
CfgInit ==
    /\ ProgramInit
    /\ ListIdle
    /\ NotifyIdle
    /\ ScanCbIdle
    /\ cfgSsid \in Ssids
    /\ cfgPassword \in Passwords
    /\ cfgServices \in 0..MaxServices
    /\ cfgSession \in BOOLEAN
    /\ cfgPc = "idle"
    /\ cfgSvc = 0
    /\ written = <<>>
    /\ logged = <<>>

CfgNext ==
    \/ Cfg_call
    \/ Cfg_sessionCleared
    \/ Cfg_services
    \/ Cfg_written
    \/ Cfg_writtenResp

SpecConfigure == CfgInit /\ [][CfgNext]_vars

\* ------------------------------------------------------------- properties
\* C1: a credential write is issued only on a session on which a
\* setupWiFiNotification has armed the CE02 listener and returned: every
\* step that hands a credential frame to the transport hands it to a handle
\* with a listener armed.
C1_WriteOnlyAfterListener ==
    [][\A i \in Instances :
        (/\ dd'[i].pc \in {"cfgWrite", "cfgWriteResp"}
         /\ (dd[i].pc # dd'[i].pc \/ dd[i].svc # dd'[i].svc))
        => listeners[dd'[i].tgt] > 0]_vars

C3_WriteInConfiguring ==
    [][\A i \in Instances :
        (mounted = i /\ dd[i].pc = "sendDelay" /\ dd'[i].pc # "sendDelay")
        => dd[i].currentState = "configuringWiFi"]_vars

\* C3 (amended): sendWiFiCredentials starts in configuringWiFi only and shows
\* the waiting screen before it calls configureWiFi: at the step that calls
\* configureWiFi the screen's state is waitingForConnection, or success when
\* a confirmation arrived during the 500 ms delay.
C3_WriteInWaiting ==
    [][\A i \in Instances :
        /\ (dd[i].pc = "idle" /\ dd'[i].pc = "sendDelay")
           => mounted = i /\ dd[i].currentState = "configuringWiFi"
        /\ (mounted = i /\ dd[i].pc = "sendDelay" /\ dd'[i].pc # "sendDelay")
           => dd[i].currentState \in {"waitingForConnection", "success"}]_vars

\* configureWiFi is running for the shown screen, which is waiting.
C3_Witness ==
    \E i \in Instances :
        /\ mounted = i
        /\ dd[i].pc = "cfgWrite"
        /\ dd[i].currentState = "waitingForConnection"

\* C4 (as stated): the state becomes waitingForConnection only at a step at
\* which configureWiFi returned true to sendWiFiCredentials (the step that
\* arms the timer).
C4_WaitingOnlyAfterWrite ==
    [][\A i \in Instances :
        (/\ mounted = i
         /\ dd[i].currentState # "waitingForConnection"
         /\ dd'[i].currentState = "waitingForConnection")
        => dd'[i].nArmed > dd[i].nArmed]_vars

\* C4 (amended): the waiting screen is entered when the send starts, and it
\* outlasts the send only if configureWiFi returned true: once
\* sendWiFiCredentials has ended, a screen still in waitingForConnection has
\* its 40 s timer stored, and a write that did not return true leaves the
\* error screen.
C4_WaitingOutlastsOnlyWrittenSend ==
    /\ \A i \in Instances :
        (mounted = i /\ dd[i].currentState = "waitingForConnection" /\ dd[i].pc = "idle")
        => dd[i].timeoutTimer # 0 /\ dd[i].nArmed > 0
    /\ \A i \in Instances :
        (mounted = i /\ dd[i].currentState = "error") => dd[i].timeoutTimer = 0

\* The write returned true: the send has ended and the screen waits.
C4_Witness ==
    \E i \in Instances :
        /\ mounted = i
        /\ dd[i].currentState = "waitingForConnection"
        /\ dd[i].pc = "idle"
        /\ dd[i].timeoutTimer # 0

\* C5: when the 40 s timer of the shown, waiting screen goes away, the
\* screen leaves the waiting state: it fired and the state is error (or it
\* was cleared by a confirmation and the state is success).
C5_TimeoutMovesToError ==
    [][\A i \in Instances :
        (/\ mounted = i /\ mounted' = i
         /\ dd[i].currentState = "waitingForConnection"
         /\ \E t \in timers : t.inst = i /\ t \notin timers')
        => dd'[i].currentState \in {"error", "success"}]_vars

\* C6: a confirmation that reached the screen while sendWiFiCredentials was
\* running is kept: the success state survives every further step of the
\* send, whatever configureWiFi returns.
C6_ConfirmationKept ==
    [][\A i \in Instances :
        (/\ mounted = i /\ mounted' = i
         /\ dd[i].currentState = "success"
         /\ dd[i].pc \in {"sendDelay", "cfgServices", "cfgWrite", "cfgWriteResp"})
        => dd'[i].currentState = "success"]_vars

\* C7: the shown screen leaves waitingForConnection in two ways only: to
\* success by a confirmation (a notification or the manual override), and to
\* error by its 40 s timer firing.
C7_TwoExits ==
    [][\A i \in Instances :
        (/\ mounted = i /\ mounted' = i
         /\ dd[i].currentState = "waitingForConnection"
         /\ dd'[i].currentState # "waitingForConnection")
        => \/ /\ dd'[i].currentState = "success"
              /\ dd'[i].pc = dd[i].pc
           \/ /\ dd'[i].currentState = "error"
              /\ \E t \in timers : t.inst = i /\ t \notin timers']_vars

\* C8: at most one 40 s confirmation timer is pending at any time.
C8_AtMostOneTimer == Cardinality(timers) <= 1

\* C9: no timer survives its session: a pending 40 s timer belongs to the
\* screen that is shown, which has reached neither success nor error, and a
\* pending scan timer belongs to a scan that is still running.
C9_NoTimerSurvives ==
    /\ \A t \in timers :
        mounted = t.inst /\ dd[t.inst].currentState \notin {"success", "error"}
    /\ \A s \in ScanSlots :
        scanJob[s].st = "timer" => scanActive /\ isScanning

\* C10: when a disconnectDevice ends, the handle is released, no
\* confirmation timer is armed and no scan is active.
C10_CancellationCleansUp ==
    [][(connectedDevice # 0 /\ connectedDevice' = 0)
        => timers' = {} /\ ~scanActive']_vars

\* C11: at most one connection session is active at any time: when a new
\* transport connection is up, every earlier one has been torn down.
C11_OneSession == Cardinality(linkUp) <= 1

\* C12: disconnectDevice is idempotent and safe: when a disconnectDevice
\* ends, whether cancelConnection resolved or rejected, connectedDevice is
\* null (isConnected() is false); one that ends after the session was
\* already cleared changes nothing else; one called with no session returns
\* at once and changes nothing.
C12_DisconnectIdempotent ==
    [][/\ (selPc = "disconnect" /\ selPc' # "disconnect") => connectedDevice' = 0
       /\ (detached' < detached) => connectedDevice' = 0 /\ linkUp' = linkUp
       /\ \A i \in Instances :
            (dd[i].pc2 = "disconnect" /\ dd'[i].pc2 # "disconnect") => connectedDevice' = 0
       /\ (connectedDevice = 0 /\ mounted # 0 /\ mounted' = 0)
          => detached' = detached /\ linkUp' = linkUp /\ connectedDevice' = 0
       /\ \A i \in Instances :
            (connectedDevice = 0 /\ dd[i].pc2 = "addDevice" /\ dd'[i].pc2 # "addDevice")
            => dd'[i].pc2 = "alert" /\ linkUp' = linkUp /\ connectedDevice' = 0]_vars

\* A disconnectDevice is still in flight when the session it was called on
\* has already been cleared by another: it ends as a second call.
C12_Witness == detached > 0 /\ connectedDevice = 0

C15_EndOnlyAfterConfirmation ==
    [][\A i \in Instances :
        (mounted = i /\ dd[i].pc2 = "idle" /\ dd'[i].pc2 = "endServices")
        => dd[i].confirmedBy \in {"notification", "dialog"}]_vars

\* C16: success and error are terminal on the shown screen: from error the
\* state only changes by retryConnection (to connecting), so a notification
\* delivered later does not make it success; from success it never becomes
\* error.
C16_TerminalStates ==
    [][\A i \in Instances :
        (mounted = i /\ mounted' = i) =>
        /\ dd[i].currentState = "error"
           => dd'[i].currentState \in {"error", "connecting"}
        /\ dd[i].currentState = "success"
           => dd'[i].currentState # "error"]_vars

\* C17: at most one monitor is registered on the notify characteristic of a
\* connection, however often setupWiFiNotification is called on it.
C17_OneListener ==
    \A h \in Handles : listeners[h] <= 1

\* C18: the reads and writes of one connection are serialized with each
\* other and with its disconnect: at most one read or write is pending on a
\* connection, and cancelConnection is called on it only when none is.
C18_Serialized ==
    [][\A h \in Handles :
        /\ Cardinality({i \in Instances : dd'[i].tgt = h})
             + Cardinality({i \in Instances : dd'[i].tgt2 = h}) <= 1
        /\ (h \in linkUp /\ h \notin linkUp')
           => \A i \in Instances : dd[i].tgt # h /\ dd[i].tgt2 # h]_vars

\* C19: a selection causes exactly one connection attempt and a failed
\* attempt ends on the scanner with nothing connecting again: the chain of
\* the scanner's connectToDevice starts only at a tap on a listed device
\* while none is running, requests the transport connection once (directly
\* or after the disconnect of the session before), and after a failed
\* connect or discovery it is over, with the scanner still shown and its
\* items enabled again.
C19_OneAttemptPerSelection ==
    [][/\ (selPc = "idle" /\ selPc' # "idle")
          => ScannerShown /\ ~isConnecting /\ isConnecting'
             /\ selPc' \in {"disconnect", "connect"}
       /\ (selPc = "disconnect" /\ selPc' # "disconnect") => selPc' = "connect"
       /\ (selPc = "connect" /\ selPc' # "connect") => selPc' \in {"discover", "idle"}
       /\ (selPc = "discover" /\ selPc' # "discover") => selPc' = "idle"
       /\ (selPc = "connect" /\ nHandles' = nHandles /\ linkUp' = linkUp /\ isConnecting' # isConnecting)
          => selPc' = "idle" /\ ~isConnecting' /\ mounted' = 0
       /\ (selPc = "discover" /\ discovered' = discovered /\ isConnecting' # isConnecting)
          => selPc' = "idle" /\ ~isConnecting' /\ mounted' = 0 /\ connectedDevice' = connectedDevice
       /\ (selPc' # "idle") => isConnecting' /\ mounted' = 0]_vars

\* An attempt has failed at discovery: the scanner is shown, nothing is
\* connecting, and the newest connection was never discovered.
C19_Witness ==
    /\ selPc = "idle"
    /\ ~isConnecting
    /\ mounted = 0
    /\ nHandles > 0
    /\ nHandles \notin discovered

\* C20: with a device that exposes neither target service no screen ever
\* leaves connecting except to error: the form (configuringWiFi) and the
\* states after it are never shown, and the step at which the shown
\* screen's setupWiFiNotification ends shows the error.
C20_NoTargetServiceFails ==
    [][targets = 0 =>
        \A i \in Instances :
            /\ dd'[i].currentState \in {"connecting", "error"}
            /\ (mounted = i /\ mounted' = i /\ dd[i].pc = "setup" /\ dd'[i].pc # "setup")
               => dd'[i].currentState = "error"]_vars

\* The screen of a connected device without target service shows the error.
C20_Witness ==
    /\ targets = 0
    /\ \E i \in Instances :
        /\ mounted = i
        /\ connectedDevice = i
        /\ i \in linkUp
        /\ dd[i].currentState = "error"

\* C21: a call of readWiFiList in which a read of CE01 was rejected
\* returns the empty list.
C21_ReadFailureGivesEmptyList ==
    (listPc \in {"parsed", "mock", "caught"} /\ readFailed) => networks = <<>>

\* C29: for a payload that holds 0x06, parseWiFiNetworks returns exactly the
\* segments between the separators whose length, after removing 0x00 and
\* trimming, is 3 to 32: each such segment once, cleaned, in the order of
\* its first place in the payload, and nothing else.
C29_AckSegments ==
    (listPc = "parsed" /\ Includes(rawData, ACK)) =>
    LET segs == Split(rawData, ACK)
        Good(i) == Len(Cleaned(segs[i])) >= 3 /\ Len(Cleaned(segs[i])) <= 32
        First(name) == CHOOSE i \in 1..Len(segs) :
                            /\ Cleaned(segs[i]) = name
                            /\ \A j \in 1..(i - 1) : Cleaned(segs[j]) # name
    IN /\ \A k \in 1..Len(networks) :
            \E i \in 1..Len(segs) : Good(i) /\ networks[k] = Cleaned(segs[i])
       /\ \A i \in 1..Len(segs) :
            Good(i) => \E k \in 1..Len(networks) : networks[k] = Cleaned(segs[i])
       /\ \A k, l \in 1..Len(networks) :
            k < l => networks[k] # networks[l] /\ First(networks[k]) < First(networks[l])

\* The payload 'Home' 0x06 'Office' 0x06 0x00 'Guest' 0x00 was parsed to
\* Home, Office, Guest.
C29_Witness ==
    /\ listPc = "parsed"
    /\ rawData = <<"H", "o", "m", "e", ACK, "O", "f", "f", "i", "c", "e", ACK,
                   NUL, "G", "u", "e", "s", "t", NUL>>
    /\ networks = << <<"H", "o", "m", "e">>, <<"O", "f", "f", "i", "c", "e">>,
                     <<"G", "u", "e", "s", "t">> >>

\* C30: every name of a list parsed from a payload has, trimmed, 3 to 32
\* characters.
C30_NamesWithinBounds ==
    listPc = "parsed" =>
        \A k \in 1..Len(networks) :
            Len(Trim(networks[k])) >= 3 /\ Len(Trim(networks[k])) <= 32

\* C31: the list parseWiFiNetworks returns holds no name twice, holds the
\* names in the order of their first place in the payload, and has at most
\* 20 entries, for every payload.
C31_UniqueOrderedCapped ==
    listPc = "parsed" =>
    LET sep == IF Includes(rawData, ACK) THEN ACK
               ELSE IF Includes(rawData, ",") THEN ","
               ELSE LF
        segs == Split(rawData, sep)
        Clean(part) == IF sep = ACK THEN Cleaned(part) ELSE Trim(part)
        First(name) == CHOOSE i \in 1..Len(segs) :
                            /\ Clean(segs[i]) = name
                            /\ \A j \in 1..(i - 1) : Clean(segs[j]) # name
    IN /\ \A k \in 1..Len(networks) :
            \E i \in 1..Len(segs) : networks[k] = Clean(segs[i])
       /\ \A k, l \in 1..Len(networks) :
            k < l => networks[k] # networks[l] /\ First(networks[k]) < First(networks[l])
       /\ Len(networks) <= 20

\* C27: the listener classifies a notification as a confirmation exactly
\* when its lowercased, trimmed text is one of 'wifi_ok', 'wifi ok',
\* 'wifiok', 'ok' or holds one of them as a whole word.
C27_EqualsOrWholeWord ==
    LET text == Trim(ToLowerCase(notifiedText))
        Words == { <<"w", "i", "f", "i", "_", "o", "k">>,
                   <<"w", "i", "f", "i", " ", "o", "k">>,
                   <<"w", "i", "f", "i", "o", "k">>,
                   <<"o", "k">> }
        WordChars == {LowerCase[k] : k \in 1..Len(LowerCase)} \cup {"_"}
        WholeWord(w) ==
            \E i \in 0..(Len(text) - Len(w)) :
                /\ SubSeq(text, i + 1, i + Len(w)) = w
                /\ i > 0 => text[i] \notin WordChars
                /\ i + Len(w) < Len(text) => text[i + Len(w) + 1] \notin WordChars
    IN \A k \in 1..Len(calls) :
        calls[k].isWifiOk <=> \E w \in Words : text = w \/ WholeWord(w)

\* C27, amended: the listener classifies a notification as a confirmation
\* exactly when its lowercased, trimmed text holds 'wifi_ok', 'wifi ok' or
\* 'wifiok' anywhere, or is 'ok'; case and surrounding white space do not
\* matter.
C27_AnywhereOrWholeText ==
    LET text == Trim(ToLowerCase(notifiedText))
    IN \A k \in 1..Len(calls) :
        calls[k].isWifiOk <=>
            \/ IncludesStr(text, <<"w", "i", "f", "i", "_", "o", "k">>)
            \/ IncludesStr(text, <<"w", "i", "f", "i", " ", "o", "k">>)
            \/ IncludesStr(text, <<"w", "i", "f", "i", "o", "k">>)
            \/ text = <<"o", "k">>

\* '  Wifi_OK  ' was classified as a confirmation.
C27_Witness ==
    /\ notifiedText = <<" ", " ", "W", "i", "f", "i", "_", "O", "K", " ", " ">>
    /\ handled = 1
    /\ calls[1].isWifiOk

\* C28: a notification that is not classified as a confirmation reaches
\* the callback once, with its text unchanged.
C28_OtherDeliveredOnce ==
    (handled = monitors /\ ~isWifiOk(notifiedText))
    => calls = <<[isWifiOk |-> FALSE, arg |-> notifiedText]>>

\* C22: a scan stops by itself: at the step at which the 30 s timer of
\* startScan fires, on the scanner that started the scan and is still
\* shown, the device scan is stopped and the scanning indicator cleared,
\* and the devices listed stay.
C22_ScanAutoStops ==
    [][\A s \in ScanSlots :
        (/\ scanJob[s].st = "timer"
         /\ scanJob'[s].st = "free"
         /\ ScannerShown
         /\ scannerId = scanJob[s].owner
         /\ scanActive)
        => ~scanActive' /\ ~isScanning' /\ devices' = devices]_vars

\* C23: when Bluetooth is not ready, the step at which startScan learns
\* it starts no device scan, stops none that runs, lists no device, and
\* ends the attempt with the scanning indicator of the shown scanner
\* cleared and its slot free, so that the scan button works again.
C23_NotReadyFails ==
    [][\A s \in ScanSlots :
        (scanJob[s].st = "check" /\ scanJob'[s].st = "free")
        => /\ scanActive' = scanActive
           /\ scanOwner' = scanOwner
           /\ devices' = devices
           /\ (ScannerShown /\ scannerId = scanJob[s].owner) => ~isScanning'
           /\ ScannerShown' = ScannerShown]_vars

\* The Bluetooth check of a startScan is pending while a device scan runs.
C23_Witness ==
    /\ scanActive
    /\ ScannerShown
    /\ \E s \in ScanSlots : scanJob[s].st = "check" /\ scanJob[s].owner = scannerId

\* C24: in one device scan onDeviceFound is called at most once per id,
\* and the scanner's list never holds an id twice, whatever callbacks
\* arrive while validations are pending.
C24_OncePerId ==
    /\ \A k, l \in 1..Len(onDeviceFoundCalls) :
        k # l => onDeviceFoundCalls[k].id # onDeviceFoundCalls[l].id
    /\ \A k, l \in 1..Len(deviceList) :
        k # l => deviceList[k].id # deviceList[l].id
    /\ \A k, l \in 1..Len(validating) :
        k # l => validating[k].id # validating[l].id

\* A second callback for an accepted id arrived while the validation of
\* the first was still pending.
C24_Witness ==
    \E k \in 1..Len(validating) :
        \E i, j \in 1..Len(adverts) :
            /\ i < j
            /\ adverts[i].id = validating[k].id
            /\ adverts[j].id = validating[k].id
            /\ Scan_accepts(adverts[i].name)
            /\ Scan_accepts(adverts[j].name)

\* C25: a device is passed to onDeviceFound only after the validation of
\* its serial number returned true, and a device whose validation returned
\* false is not passed in this scan.
C25_SurfacedOnlyValidated ==
    /\ \A k \in 1..Len(onDeviceFoundCalls) :
        [id |-> onDeviceFoundCalls[k].id,
         serialNumber |-> onDeviceFoundCalls[k].serialNumber,
         isValid |-> TRUE] \in validations
    /\ \A v \in validations :
        ~v.isValid => /\ \A k \in 1..Len(onDeviceFoundCalls) : onDeviceFoundCalls[k].id # v.id
                      /\ \A k \in 1..Len(deviceList) : deviceList[k].id # v.id

\* One device was validated and listed, another was rejected by the
\* validator and is not listed.
C25_Witness ==
    /\ \E v \in validations : ~v.isValid
    /\ Len(deviceList) = 1
    /\ Len(onDeviceFoundCalls) = 1

\* C26: only devices whose name begins with 'GC-' are accepted, and the
\* serial number of an accepted device is its name without these three
\* leading characters; a device without name or with another prefix is
\* neither validated nor passed to onDeviceFound.
C26_PrefixAndSerial ==
    LET Accepted == { <<adverts[i].id, adverts[i].name>> : i \in 1..Len(adverts) }
        Right(d) ==
            /\ Len(d.name) >= 3
            /\ SubSeq(d.name, 1, 3) = <<"G", "C", "-">>
            /\ d.serialNumber = SubSeq(d.name, 4, Len(d.name))
            /\ <<d.id, d.name>> \in Accepted
    IN /\ \A k \in 1..Len(validating) : Right(validating[k])
       /\ \A k \in 1..Len(onDeviceFoundCalls) : Right(onDeviceFoundCalls[k])
       /\ \A k \in 1..Len(deviceList) : Right(deviceList[k])
       /\ \A v \in validations :
            \E i \in 1..Len(adverts) :
                /\ adverts[i].id = v.id
                /\ Len(adverts[i].name) >= 3
                /\ SubSeq(adverts[i].name, 1, 3) = <<"G", "C", "-">>
                /\ v.serialNumber = SubSeq(adverts[i].name, 4, Len(adverts[i].name))
       /\ \A id \in foundDevices :
            \E i \in 1..Len(adverts) :
                /\ adverts[i].id = id
                /\ Len(adverts[i].name) >= 3
                /\ SubSeq(adverts[i].name, 1, 3) = <<"G", "C", "-">>

\* The device named 'GC-XYZ123' is listed with the serial number 'XYZ123',
\* after callbacks with a wrong prefix and with no name.
C26_Witness ==
    /\ \E k \in 1..Len(deviceList) :
        /\ deviceList[k].id = "AA:BB"
        /\ deviceList[k].name = <<"G", "C", "-", "X", "Y", "Z", "1", "2", "3">>
        /\ deviceList[k].rssi = -60
        /\ deviceList[k].serialNumber = <<"X", "Y", "Z", "1", "2", "3">>
    /\ \E i \in 1..Len(adverts) : adverts[i].name = <<>>
    /\ \E i \in 1..Len(adverts) : adverts[i].name = <<"X", "X", "-", "X", "Y", "Z", "1", "2", "3">>

\* C32: every value configureWiFi hands to a write decodes (base64) to
\* exactly '_UWF:' + ssid + 0x06 + password + 0x04.
C32_FrameRoundTrip ==
    \A k \in 1..Len(written) :
        Atob(written[k].value) =
            <<"_", "U", "W", "F", ":">> \o cfgSsid \o <<"x06">> \o cfgPassword \o <<"x04">>

\* The frame of 'Home' and 'secret1' was written: the value is
\* 'X1VXRjpIb21lBnNlY3JldDEE'.
C32_Witness ==
    /\ cfgSsid = <<"H", "o", "m", "e">>
    /\ cfgPassword = <<"s", "e", "c", "r", "e", "t", "1">>
    /\ cfgPc = "true"
    /\ Len(written) = 1
    /\ written[1].value =
         <<"X", "1", "V", "X", "R", "j", "p", "I", "b", "2", "1", "l", "B", "n", "N", "l", "Y", "3", "J", "l", "d", "D", "E", "E">>

\* C33: configureWiFi writes without response first and with response
\* only after that write failed, service by service; it issues no write
\* after one that succeeded; it returns true exactly when a write
\* succeeded, false when all have failed, and throws only when called
\* with no session (then nothing is written).
C33_PrimaryThenFallback ==
    /\ \A k \in 1..Len(written) :
        /\ written[k].mode = IF k % 2 = 1 THEN "withoutResponse" ELSE "withResponse"
        /\ written[k].service = (k + 1) \div 2
        /\ k < Len(written) => ~written[k].ok
    /\ cfgPc = "write" => Len(written) % 2 = 0 /\ \A k \in 1..Len(written) : ~written[k].ok
    /\ cfgPc = "writeResp" => Len(written) % 2 = 1 /\ \A k \in 1..Len(written) : ~written[k].ok
    /\ cfgPc = "true" <=> (written # <<>> /\ written[Len(written)].ok)
    /\ cfgPc = "false" => \A k \in 1..Len(written) : ~written[k].ok
    /\ (cfgServices >= 1 /\ Len(written) = 2 * cfgServices /\ ~written[Len(written)].ok)
       => cfgPc = "false"
    /\ cfgPc = "threw" => written = <<>> /\ logged = <<>> /\ ~cfgSession

\* The write without response failed and the write with response on the
\* same service succeeded: the call returned true.
C33_Witness ==
    /\ cfgPc = "true"
    /\ cfgSession
    /\ Len(written) = 2
    /\ ~written[1].ok
    /\ written[2].ok

\* C40: what configureWiFi logs does not depend on the content of the
\* password: a call with any other password of the same length (same
\* name, same answers of the transport) logs the same values.
C40_LogIndependentOfPassword ==
    cfgPc \notin {"idle", "threw"} =>
        \A other \in Passwords :
            Len(other) = Len(cfgPassword) =>
                SubSeq(logged, 1, Len(Cfg_logged(cfgSsid, other))) = Cfg_logged(cfgSsid, other)

\* C34: the shown screen reaches success only after a configureWiFi of its
\* session returned true: at every step at which the state becomes success
\* (a notification, the timeout dialog, the debug button), a credential
\* write of this screen has returned true before.
C34_SuccessOnlyAfterWrite ==
    [][\A i \in Instances :
        (dd[i].currentState # "success" /\ dd'[i].currentState = "success")
        => dd[i].nArmed > 0]_vars

\* C35: the screen takes a notification for a confirmation only when the
\* listener classified it as one: no success shown comes from a text the
\* classifier rejected and passed on unchanged.
C35_OnlyClassifiedConfirms ==
    \A i \in Instances : dd[i].confirmedBy # "marker"

\* C36: onDeviceFound is called only for the scan that is running: never
\* after stopScan has stopped the scan of the callback, and never by a
\* callback of an earlier scan; every device in the scanner's list was
\* passed by the scan that runs (or ran last).
C36_NoLateSurfacing ==
    /\ \A k \in 1..Len(onDeviceFoundCalls) :
        ~onDeviceFoundCalls[k].stopped /\ onDeviceFoundCalls[k].run = onDeviceFoundCalls[k].atRun
    /\ \A k \in 1..Len(deviceList) :
        \E l \in 1..Len(onDeviceFoundCalls) :
            /\ onDeviceFoundCalls[l].id = deviceList[k].id
            /\ onDeviceFoundCalls[l].run = scanRun

\* C37: the end frame is written successfully at most once per session,
\* and no two completeSetup runs are in flight together: at the step at
\* which an end write succeeds on a Device, no end write has succeeded on
\* it before, and at most one instance is between its confirm press and
\* its success alert.
C37_EndFrameOnce ==
    [][/\ \A i \in Instances :
            (dd[i].pc2 = "endWrite" /\ dd'[i].pc2 = "addDevice")
            => \A j \in Instances : dd[j].endedOn # dd[i].tgt2
       /\ Cardinality({i \in Instances :
                dd'[i].pc2 \in {"endServices", "endWrite", "addDevice", "disconnect"}}) <= 1]_vars

\* C38: in a completeSetup run addDeviceToSystem is called only at the
\* step at which the end write of this run succeeded, and the success
\* alert, whose button is onDeviceAdded, is shown only after the
\* registration returned and the disconnect was done: no Device is stored
\* any more, and the link of the Device the end frame went to is down.
C38_RegisterThenOffer ==
    [][\A i \in Instances :
        /\ (dd[i].pc2 # "addDevice" /\ dd'[i].pc2 = "addDevice")
           => dd[i].pc2 = "endWrite" /\ dd[i].tgt2 \in linkUp
        /\ (dd[i].pc2 # "alert" /\ dd'[i].pc2 = "alert")
           => /\ dd[i].pc2 \in {"addDevice", "disconnect"}
              /\ connectedDevice' = 0
              /\ dd'[i].endedOn = 0]_vars

\* C39: connectedDevice is not null only after a connectToDevice whose
\* connection and discovery both succeeded: it is set only at the step at
\* which the discovery of the newest connection succeeds, and it always
\* holds a discovered Device.  At the step at which connectToDevice fails,
\* at the connection or at the discovery, it is null (isConnected() is
\* false), whether or not a session was stored at the call.
C39_SessionReflectsOutcome ==
    [][/\ connectedDevice' # 0 => connectedDevice' \in discovered'
       /\ (connectedDevice' # connectedDevice /\ connectedDevice' # 0)
          => /\ selPc = "discover"
             /\ connectedDevice' = nHandles
             /\ nHandles \notin discovered
             /\ nHandles \in linkUp
       /\ (selPc = "connect" /\ selPc' = "idle") => connectedDevice' = 0
       /\ (selPc = "discover" /\ discovered' = discovered /\ selPc' = "idle")
          => connectedDevice' = 0]_vars

\* A connectToDevice called while the Device of an earlier session was
\* stored (the disconnect of that screen's cleanup has not ended yet) has
\* failed at discovery: nothing is stored.
C39_Witness ==
    /\ selPc = "idle"
    /\ nHandles = 2
    /\ 1 \in discovered
    /\ 2 \notin discovered
    /\ detached > 0
    /\ connectedDevice = 0

====
